---- MODULE Spec2Model ----
(***************************************************************************)
(* camo-rs: signing, transport encoding, content policy and the relay      *)
(* pipeline.  Strings are sequences of byte values (0..255) where the code *)
(* works on bytes (digests, URL tokens) and sequences of one-character     *)
(* strings where it works on header text (content types).                  *)
(* Option<T> is modelled as a sequence: None == <<>>, Some(x) == <<x>>.    *)
(***************************************************************************)
EXTENDS Integers, Sequences, FiniteSets, TLC

VARIABLES
    \* ---- Signer harness (utils/crypto.rs, lib.rs) ----
    key,        \* the signing key, a byte string
    url,        \* the URL string being signed / verified
    digest,     \* the digest string presented to verify
    verdict,    \* Option<bool>: what verify_digest returned
    sphase,     \* "start" | "presented" | "verified"
    tampered,   \* number of edits applied to the digest since it was generated
    \* ---- Encoder harness (utils/encoding.rs) ----
    source,     \* <<"url", U>> (a URL to encode) or <<"token", T>> (a raw path token)
    encoding,   \* "none" | "hex" | "base64" | "raw": how the token was produced
    token,      \* Option<String>: the transport token handed to decode_url
    decoded,    \* <<>> before the call, <<r>> after: r the Option<String> returned
    early,      \* Option<status>: proxy_path's early response, if it made one
    \* ---- configuration and content policy ----
    config,     \* the configuration resolved at startup (Cli / Config)
    declared,   \* the declared content type handed to the policy
    policy,     \* <<>> before the policy ran, <<r>> after: r its answers
    \* ---- the request pipeline ----
    target,     \* "server" (server.rs + proxy.rs), "router" (server/router.rs +
                \* WorkerFetchClient) or "worker" (worker.rs)
    req,        \* Option<request>: the inbound request being handled
    stage,      \* where the request is; see Stages
    stages,     \* the stages the request has entered, in order
    resolved,   \* Option<addresses>: what the host lookup returned
    resp,       \* Option<response>: the upstream response head
    read,       \* body bytes read from upstream so far
    sent,       \* body bytes forwarded downstream so far
    fetches,    \* upstream requests issued for this inbound request
    failure,    \* Option<cause>: why the upstream exchange failed, if it did
    outcome,    \* Option<[kind, status]>: the response given to the caller
    downstream, \* "connected" | "gone": the caller's side of the response
    served,     \* whether the process answered a request before this one
    \* ---- the signing library and the sign command (lib.rs, main.rs) ----
    camo,       \* Option<CamoUrl>: [key, default_encoding]
    signed,     \* Option<SignedUrl>: the value returned by sign, as switched since
    first,      \* Option<SignedUrl>: the value as sign returned it
    prev,       \* Option<<<op, SignedUrl>>>: the last switch and the value it got
    switches,   \* number of base64() / hex() calls made so far
    output      \* Option<record>: what to_url, to_path or the sign command gave

svars == <<key, url, digest, verdict, sphase, tampered>>
evars == <<source, encoding, token, decoded, early>>
pvars == <<declared, policy>>
rvars == <<target, req, stage, stages, resolved, resp, read, sent, fetches,
           failure, outcome, downstream, served>>
lvars == <<camo, signed, first, prev, switches, output>>
vars == <<key, url, digest, verdict, sphase, tampered,
          source, encoding, token, decoded, early,
          config, declared, policy,
          target, req, stage, stages, resolved, resp, read, sent, fetches,
          failure, outcome, downstream, served,
          camo, signed, first, prev, switches, output>>

None == <<>>
Some(x) == <<x>>

(***************************************************************************)
(* Bounds of the model.                                                    *)
(***************************************************************************)
DigestBytes == 2        \* width of the modelled MAC output, in bytes
BlockBytes == 3         \* block size of the modelled hash, in bytes
MaxTamper == 1          \* edits an attacker applies to a generated digest

(***************************************************************************)
(* u8 arithmetic: x ^ y and x | y on 8-bit values.                         *)
(***************************************************************************)
RECURSIVE BitXor(_, _, _)
BitXor(a, b, n) ==
    IF n = 0 THEN 0
    ELSE (((a % 2) + (b % 2)) % 2) + 2 * BitXor(a \div 2, b \div 2, n - 1)

RECURSIVE BitOr(_, _, _)
BitOr(a, b, n) ==
    IF n = 0 THEN 0
    ELSE (IF (a % 2) = 1 \/ (b % 2) = 1 THEN 1 ELSE 0)
         + 2 * BitOr(a \div 2, b \div 2, n - 1)

Xor8(a, b) == BitXor(a, b, 8)
Or8(a, b) == BitOr(a, b, 8)

RECURSIVE Concat(_)
Concat(ss) == IF ss = <<>> THEN <<>> ELSE Head(ss) \o Concat(Tail(ss))

(***************************************************************************)
(* hex::encode: two lowercase hex digits per byte, high nibble first.      *)
(***************************************************************************)
HexDigit(n) == IF n < 10 THEN 48 + n ELSE 87 + n

HexEncode(bytes) ==
    Concat([i \in 1..Len(bytes) |->
              <<HexDigit(bytes[i] \div 16), HexDigit((bytes[i]) % 16)>>])

(***************************************************************************)
(* The MAC.  HMAC-SHA1 comes from the hmac and sha1 crates; the model      *)
(* keeps HMAC's construction H((K0 ^ opad) || H((K0 ^ ipad) || m)) over a  *)
(* narrow mixing function in place of SHA-1: DigestBytes bytes of output,  *)
(* a deterministic function of every input byte.                           *)
(***************************************************************************)
RECURSIVE Mix(_, _, _)
Mix(h, bytes, lane) ==
    IF bytes = <<>> THEN h
    ELSE Mix(((h * 33) + Head(bytes) + lane) % 256, Tail(bytes), lane)

Sha1(bytes) == [lane \in 1..DigestBytes |-> Mix(5 + 17 * lane, bytes, lane)]

HmacKeyBlock(k) ==
    LET k0 == IF Len(k) > BlockBytes THEN Sha1(k) ELSE k
    IN  [i \in 1..BlockBytes |-> IF i <= Len(k0) THEN k0[i] ELSE 0]

HmacSha1(k, msg) ==
    LET k0 == HmacKeyBlock(k)
        ipad == [i \in 1..BlockBytes |-> Xor8(k0[i], 54)]
        opad == [i \in 1..BlockBytes |-> Xor8(k0[i], 92)]
    IN  Sha1(opad \o Sha1(ipad \o msg))

\* generate_digest: hex of the MAC over the URL's bytes.
GenerateDigest(k, u) == HexEncode(HmacSha1(k, u))

\* constant_time_eq without its length check: zip stops at the shorter slice.
ConstantTimeEq_NoLengthCheck(a, b) ==
    LET n == IF Len(a) < Len(b) THEN Len(a) ELSE Len(b)
        acc[i \in 0..n] ==
            IF i = 0 THEN 0 ELSE Or8(acc[i - 1], Xor8(a[i], b[i]))
    IN  acc[n] = 0

\* constant_time_eq with the final test inverted.
ConstantTimeEq_Inverted(a, b) ==
    IF Len(a) # Len(b) THEN FALSE
    ELSE LET acc[i \in 0..Len(a)] ==
                 IF i = 0 THEN 0 ELSE Or8(acc[i - 1], Xor8(a[i], b[i]))
         IN  acc[Len(a)] # 0

\* constant_time_eq: false on a length mismatch, else the OR of all x ^ y is 0.
ConstantTimeEq(a, b) ==
    IF Len(a) # Len(b) THEN FALSE
    ELSE LET acc[i \in 0..Len(a)] ==
                 IF i = 0 THEN 0 ELSE Or8(acc[i - 1], Xor8(a[i], b[i]))
         IN  acc[Len(a)] = 0

\* verify_digest
VerifyDigest(k, u, d) ==
    LET expected == GenerateDigest(k, u)
    IN  ConstantTimeEq(expected, d)

(***************************************************************************)
(* Signer harness: a digest is generated for (key, url) or forged, an      *)
(* attacker edits it, and verify_digest is called on the result.           *)
(***************************************************************************)
\* "k", "s3" and "key12" (longer than the hash block)
Keys == { <<107>>, <<115, 51>>, <<107, 101, 121, 49, 50>> }

\* "", "a", "b", "ab", "ba", "h:/", "sot"
SignUrls == { <<>>, <<97>>, <<98>>, <<97, 98>>, <<98, 97>>,
              <<104, 58, 47>>, <<115, 111, 116>> }

\* "", "invalid-digest", "0000" and "zz"
ForgedDigests == { <<>>,
                   <<105, 110, 118, 97, 108, 105, 100, 45, 100, 105, 103, 101, 115, 116>>,
                   <<48, 48, 48, 48>>, <<122, 122>> }

\* one bit of one character flipped (bits 0..6: the digest stays ASCII text)
FlipBitAt(d, i, b) == [d EXCEPT ![i] = Xor8(d[i], 2 ^ b)]

SignerIdle ==
    /\ key = <<>> /\ url = <<>> /\ digest = <<>>
    /\ verdict = None /\ sphase = "idle" /\ tampered = 0

EncoderIdle ==
    /\ source = <<>> /\ encoding = "none" /\ token = None
    /\ decoded = <<>> /\ early = None

PolicyIdle == declared = <<>> /\ policy = <<>>

LibraryIdle ==
    /\ camo = <<>> /\ signed = <<>> /\ first = <<>> /\ prev = <<>>
    /\ switches = 0 /\ output = <<>>

PipelineIdle ==
    /\ target = "none" /\ req = None /\ stage = "Idle" /\ stages = <<>>
    /\ resolved = None /\ resp = None /\ read = 0 /\ sent = 0
    /\ fetches = 0 /\ failure = None /\ outcome = None
    /\ downstream = "connected" /\ served = FALSE

SignerInit ==
    /\ key \in Keys
    /\ url \in SignUrls
    /\ digest = <<>>
    /\ verdict = None
    /\ sphase = "start"
    /\ tampered = 0
    /\ EncoderIdle
    /\ PolicyIdle
    /\ config = <<>>
    /\ PipelineIdle
    /\ LibraryIdle

Generate ==
    /\ sphase = "start"
    /\ digest' = GenerateDigest(key, url)
    /\ sphase' = "presented"
    /\ UNCHANGED <<key, url, verdict, tampered, evars, pvars, lvars, config, rvars>>

Forge ==
    /\ sphase = "start"
    /\ \E d \in ForgedDigests : digest' = d
    /\ sphase' = "presented"
    /\ tampered' = MaxTamper
    /\ UNCHANGED <<key, url, verdict, evars, pvars, lvars, config, rvars>>

FlipBit ==
    /\ sphase = "presented"
    /\ tampered < MaxTamper
    /\ \E i \in 1..Len(digest), b \in 0..6 : digest' = FlipBitAt(digest, i, b)
    /\ tampered' = tampered + 1
    /\ UNCHANGED <<key, url, verdict, sphase, evars, pvars, lvars, config, rvars>>

Truncate ==
    /\ sphase = "presented"
    /\ tampered < MaxTamper
    /\ Len(digest) > 0
    /\ digest' = SubSeq(digest, 1, Len(digest) - 1)
    /\ tampered' = tampered + 1
    /\ UNCHANGED <<key, url, verdict, sphase, evars, pvars, lvars, config, rvars>>

Extend ==
    /\ sphase = "presented"
    /\ tampered < MaxTamper
    /\ \E c \in {48, 102} : digest' = Append(digest, c)
    /\ tampered' = tampered + 1
    /\ UNCHANGED <<key, url, verdict, sphase, evars, pvars, lvars, config, rvars>>

Verify ==
    /\ sphase = "presented"
    /\ verdict' = Some(VerifyDigest(key, url, digest))
    /\ sphase' = "verified"
    /\ UNCHANGED <<key, url, digest, tampered, evars, pvars, lvars, config, rvars>>

SignerNext == Generate \/ Forge \/ FlipBit \/ Truncate \/ Extend \/ Verify

SpecSigner == SignerInit /\ [][SignerNext]_vars

\* C1: for every non-empty key K and URL string U,
\* verify(K, U, generate(K, U)) returns true.
C1_VerifyAcceptsGenerated ==
    (sphase = "verified" /\ Len(key) > 0 /\ digest = GenerateDigest(key, url))
        => verdict = Some(TRUE)

C1_Witness ==
    /\ sphase = "verified" /\ Len(key) > 0 /\ tampered = 0
    /\ digest = GenerateDigest(key, url)

\* C2: for every key K, URL U and digest string D that differs from
\* generate(K, U), verify(K, U, D) returns false; this covers every single-bit
\* mutation of the generated digest and every D of a different length.
C2_VerifyRejectsOthers ==
    (sphase = "verified" /\ digest # GenerateDigest(key, url))
        => verdict = Some(FALSE)

\* a single-bit mutation and a length mismatch have both been verified
C2_WitnessBitFlip ==
    /\ sphase = "verified" /\ tampered = 1
    /\ Len(digest) = 2 * DigestBytes
    /\ digest # GenerateDigest(key, url)

C2_WitnessLength ==
    /\ sphase = "verified" /\ tampered = 1
    /\ Len(digest) = 2 * DigestBytes - 1
    /\ verdict = Some(FALSE)

(***************************************************************************)
(* Encoder (utils/encoding.rs).  hex, base64 and urlencoding are crates;   *)
(* each is modelled by what it computes on bytes.                          *)
(***************************************************************************)
MaxUrlLen == 3          \* longest URL string the encoder harness encodes
MaxTokenLen == 4        \* longest raw token the encoder harness decodes

IsHexChar(c) == c \in 48..57 \/ c \in 97..102 \/ c \in 65..70

HexVal(c) ==
    IF c \in 48..57 THEN c - 48
    ELSE IF c \in 97..102 THEN c - 87
    ELSE c - 55

\* hex::decode: Err on odd length or on any character that is no hex digit
\* (either case accepted); else one byte per two characters.
HexDecode(s) ==
    IF Len(s) % 2 # 0 THEN None
    ELSE IF \E i \in 1..Len(s) : ~IsHexChar(s[i]) THEN None
    ELSE Some([i \in 1..(Len(s) \div 2) |->
                 16 * HexVal(s[2 * i - 1]) + HexVal(s[2 * i])])

\* String::from_utf8: the byte string is well-formed UTF-8.
RECURSIVE Utf8Valid(_)
Utf8Valid(b) ==
    LET Cont(i) == i <= Len(b) /\ b[i] \in 128..191
        From(n) == SubSeq(b, n, Len(b))
    IN  IF b = <<>> THEN TRUE
        ELSE IF b[1] <= 127 THEN Utf8Valid(From(2))
        ELSE IF b[1] \in 194..223 THEN Cont(2) /\ Utf8Valid(From(3))
        ELSE IF b[1] = 224
            THEN Len(b) >= 2 /\ b[2] \in 160..191 /\ Cont(3) /\ Utf8Valid(From(4))
        ELSE IF b[1] = 237
            THEN Len(b) >= 2 /\ b[2] \in 128..159 /\ Cont(3) /\ Utf8Valid(From(4))
        ELSE IF b[1] \in 225..239
            THEN Cont(2) /\ Cont(3) /\ Utf8Valid(From(4))
        ELSE IF b[1] = 240
            THEN Len(b) >= 2 /\ b[2] \in 144..191 /\ Cont(3) /\ Cont(4)
                 /\ Utf8Valid(From(5))
        ELSE IF b[1] \in 241..243
            THEN Cont(2) /\ Cont(3) /\ Cont(4) /\ Utf8Valid(From(5))
        ELSE IF b[1] = 244
            THEN Len(b) >= 2 /\ b[2] \in 128..143 /\ Cont(3) /\ Cont(4)
                 /\ Utf8Valid(From(5))
        ELSE FALSE

\* The URL-safe base64 alphabet: A-Z a-z 0-9 - _
B64Char(v) ==
    IF v < 26 THEN 65 + v
    ELSE IF v < 52 THEN 97 + (v - 26)
    ELSE IF v < 62 THEN 48 + (v - 52)
    ELSE IF v = 62 THEN 45
    ELSE 95

IsB64Char(c) == c \in 65..90 \/ c \in 97..122 \/ c \in 48..57 \/ c = 45 \/ c = 95

B64Val(c) ==
    IF c \in 65..90 THEN c - 65
    ELSE IF c \in 97..122 THEN c - 97 + 26
    ELSE IF c \in 48..57 THEN c - 48 + 52
    ELSE IF c = 45 THEN 62
    ELSE 63

\* URL_SAFE_NO_PAD.encode: 3 bytes to 4 characters, a final group of 1 or 2
\* bytes to 2 or 3 characters, no '=' padding.
RECURSIVE Base64Encode(_)
Base64Encode(b) ==
    IF b = <<>> THEN <<>>
    ELSE IF Len(b) = 1
        THEN <<B64Char(b[1] \div 4), B64Char((b[1] % 4) * 16)>>
    ELSE IF Len(b) = 2
        THEN <<B64Char(b[1] \div 4),
               B64Char((b[1] % 4) * 16 + (b[2] \div 16)),
               B64Char((b[2] % 16) * 4)>>
    ELSE <<B64Char(b[1] \div 4),
           B64Char((b[1] % 4) * 16 + (b[2] \div 16)),
           B64Char((b[2] % 16) * 4 + (b[3] \div 64)),
           B64Char(b[3] % 64)>> \o Base64Encode(SubSeq(b, 4, Len(b)))

\* the bytes of a token already known to be well-formed
RECURSIVE Base64Bytes(_)
Base64Bytes(s) ==
    LET v(i) == B64Val(s[i])
    IN  IF Len(s) < 2 THEN <<>>
        ELSE IF Len(s) = 2 THEN <<v(1) * 4 + (v(2) \div 16)>>
        ELSE IF Len(s) = 3
            THEN <<v(1) * 4 + (v(2) \div 16), (v(2) % 16) * 16 + (v(3) \div 4)>>
        ELSE <<v(1) * 4 + (v(2) \div 16),
               (v(2) % 16) * 16 + (v(3) \div 4),
               (v(3) % 4) * 64 + v(4)>> \o Base64Bytes(SubSeq(s, 5, Len(s)))

\* URL_SAFE_NO_PAD.decode: Err on a character outside the alphabet ('='
\* included: padding is not accepted), on a length of 1 mod 4, and on
\* non-zero trailing bits in the last character.
Base64Decode(s) ==
    LET r == Len(s) % 4
        last == B64Val(s[Len(s)])
    IN  IF \E i \in 1..Len(s) : ~IsB64Char(s[i]) THEN None
        ELSE IF r = 1 THEN None
        ELSE IF r = 2 /\ last % 16 # 0 THEN None
        ELSE IF r = 3 /\ last % 4 # 0 THEN None
        ELSE Some(Base64Bytes(s))

\* urlencoding::decode_binary: every %XY with two hex digits becomes one byte;
\* a '%' not followed by two hex digits is kept as it is.
RECURSIVE PercentDecodeBinary(_)
PercentDecodeBinary(s) ==
    IF s = <<>> THEN <<>>
    ELSE IF Head(s) # 37 THEN <<Head(s)>> \o PercentDecodeBinary(Tail(s))
    ELSE LET rest == Tail(s)
         IN  IF Len(rest) < 2 THEN <<37>> \o rest
             ELSE IF ~IsHexChar(rest[1]) THEN <<37>> \o PercentDecodeBinary(rest)
             ELSE IF ~IsHexChar(rest[2])
                 THEN <<37, rest[1]>> \o PercentDecodeBinary(Tail(rest))
             ELSE <<16 * HexVal(rest[1]) + HexVal(rest[2])>>
                  \o PercentDecodeBinary(SubSeq(rest, 3, Len(rest)))

\* urlencoding::decode: Err when the decoded bytes are not UTF-8.
PercentDecode(s) ==
    LET b == PercentDecodeBinary(s)
    IN  IF Utf8Valid(b) THEN Some(b) ELSE None

\* encode_url_hex / encode_url_base64
EncodeUrlHex(u) == HexEncode(u)
EncodeUrlBase64(u) == Base64Encode(u)

\* decode_url with the base64 attempt made before the hex attempt
DecodeUrl_Base64First(encoded) ==
    LET hex == HexDecode(encoded)
        b64 == Base64Decode(encoded)
    IN  IF b64 # None /\ Utf8Valid(b64[1]) THEN Some(b64[1])
        ELSE IF hex # None /\ Utf8Valid(hex[1]) THEN Some(hex[1])
        ELSE PercentDecode(encoded)

\* decode_url without its percent-decoding fallback
DecodeUrl_NoPercentFallback(encoded) ==
    LET hex == HexDecode(encoded)
        b64 == Base64Decode(encoded)
    IN  IF hex # None /\ Utf8Valid(hex[1]) THEN Some(hex[1])
        ELSE IF b64 # None /\ Utf8Valid(b64[1]) THEN Some(b64[1])
        ELSE None

\* decode_url: hex, then base64, then percent-decoding; None if all fail.
DecodeUrl(encoded) ==
    LET hex == HexDecode(encoded)
        b64 == Base64Decode(encoded)
    IN  IF hex # None /\ Utf8Valid(hex[1]) THEN Some(hex[1])
        ELSE IF b64 # None /\ Utf8Valid(b64[1]) THEN Some(b64[1])
        ELSE PercentDecode(encoded)

\* proxy_path up to its call of proxy_request: 400 when decode_url fails.
ProxyPathEarly(encoded_url) ==
    IF DecodeUrl(encoded_url) = None THEN Some(400) ELSE None

(***************************************************************************)
(* Encoder harness: a URL is encoded by the signer's side, or a raw token  *)
(* arrives on the path route; proxy_path decodes it.                       *)
(***************************************************************************)
RECURSIVE StringsUpTo(_, _)
StringsUpTo(alphabet, n) ==
    IF n = 0 THEN { <<>> }
    ELSE LET shorter == StringsUpTo(alphabet, n - 1)
         IN  shorter \cup { Append(s, c) : s \in shorter, c \in alphabet }

\* s o t h : /  and the bytes of U+00E9 (C3 A9) and U+3374 (E3 8D B4)
UrlAlphabet == {115, 111, 116, 104, 58, 47, 195, 169, 227, 141, 180}

\* % ! 0 2 4 9 H c f
TokenAlphabet == {37, 33, 48, 50, 52, 57, 72, 99, 102}

\* a Rust &str is UTF-8 by construction
EncoderUrls == { u \in StringsUpTo(UrlAlphabet, MaxUrlLen) : Utf8Valid(u) }
EncoderTokens == StringsUpTo(TokenAlphabet, MaxTokenLen)

EncoderInit ==
    /\ source \in ({ <<"url", u>> : u \in EncoderUrls }
                   \cup { <<"token", t>> : t \in EncoderTokens })
    /\ encoding = "none"
    /\ token = None
    /\ decoded = <<>>
    /\ early = None
    /\ SignerIdle
    /\ PolicyIdle
    /\ config = <<>>
    /\ PipelineIdle
    /\ LibraryIdle

EncodeHex ==
    /\ source[1] = "url" /\ token = None
    /\ token' = Some(EncodeUrlHex(source[2]))
    /\ encoding' = "hex"
    /\ UNCHANGED <<source, decoded, early, svars, pvars, lvars, config, rvars>>

EncodeBase64 ==
    /\ source[1] = "url" /\ token = None
    /\ token' = Some(EncodeUrlBase64(source[2]))
    /\ encoding' = "base64"
    /\ UNCHANGED <<source, decoded, early, svars, pvars, lvars, config, rvars>>

Arrive ==
    /\ source[1] = "token" /\ token = None
    /\ token' = Some(source[2])
    /\ encoding' = "raw"
    /\ UNCHANGED <<source, decoded, early, svars, pvars, lvars, config, rvars>>

ProxyPathDecode ==
    /\ token # None /\ decoded = <<>>
    /\ decoded' = <<DecodeUrl(token[1])>>
    /\ early' = ProxyPathEarly(token[1])
    /\ UNCHANGED <<source, encoding, token, svars, pvars, lvars, config, rvars>>

EncoderNext == EncodeHex \/ EncodeBase64 \/ Arrive \/ ProxyPathDecode

SpecEncoder == EncoderInit /\ [][EncoderNext]_vars

\* C3: hex round trip: for any URL U representable as UTF-8,
\* decode_url(encode_url_hex(U)) returns U.
C3_HexRoundTrip ==
    (encoding = "hex" /\ decoded # <<>>) => decoded[1] = Some(source[2])

C3_Witness ==
    /\ encoding = "hex" /\ decoded # <<>>
    /\ Len(source[2]) = MaxUrlLen
    /\ \E i \in 1..Len(source[2]) : source[2][i] > 127

\* C4: base64 round trip: for any URL U representable as UTF-8,
\* decode_url(encode_url_base64(U)) returns U; the hex attempt made first
\* never captures a base64 token.
C4_Base64RoundTrip ==
    (encoding = "base64" /\ decoded # <<>>) => decoded[1] = Some(source[2])

\* C5: decode returns the result of the first of hex, URL-safe unpadded
\* base64 and percent-decoding, in that order, that decodes to bytes which
\* are valid UTF-8; it fails (400 on the path route) only if none succeeds.
C5_DecodeOrder ==
    decoded # <<>> =>
        LET t == token[1]
            hexOk == HexDecode(t) # None /\ Utf8Valid(HexDecode(t)[1])
            b64Ok == Base64Decode(t) # None /\ Utf8Valid(Base64Decode(t)[1])
            pctOk == Utf8Valid(PercentDecodeBinary(t))
        IN  /\ hexOk => decoded[1] = HexDecode(t)
            /\ (~hexOk /\ b64Ok) => decoded[1] = Base64Decode(t)
            /\ (~hexOk /\ ~b64Ok /\ pctOk)
                   => decoded[1] = Some(PercentDecodeBinary(t))
            /\ (decoded[1] = None) <=> (~hexOk /\ ~b64Ok /\ ~pctOk)
            /\ (early = Some(400)) <=> (decoded[1] = None)
            /\ early \in {None, Some(400)}

\* a token that is valid under hex and under base64, with different results
C5_Witness ==
    /\ decoded # <<>> /\ encoding = "raw"
    /\ HexDecode(token[1]) # None /\ Utf8Valid(HexDecode(token[1])[1])
    /\ Base64Decode(token[1]) # None /\ Utf8Valid(Base64Decode(token[1])[1])
    /\ HexDecode(token[1]) # Base64Decode(token[1])
    /\ Len(token[1]) > 0

\* a token no scheme decodes
C5_WitnessFailure == decoded = <<None>> /\ early = Some(400)

(***************************************************************************)
(* Content policy (server/content_types.rs, server/config.rs, config.rs,    *)
(* proxy.rs).  Header text is a sequence of one-character strings.         *)
(***************************************************************************)
\* IMAGE_TYPES
IMAGE_TYPES ==
    << <<"i", "m", "a", "g", "e", "/", "b", "m", "p">>,
       <<"i", "m", "a", "g", "e", "/", "c", "g", "m">>,
       <<"i", "m", "a", "g", "e", "/", "g", "3", "f", "a", "x">>,
       <<"i", "m", "a", "g", "e", "/", "g", "i", "f">>,
       <<"i", "m", "a", "g", "e", "/", "i", "e", "f">>,
       <<"i", "m", "a", "g", "e", "/", "j", "p", "2">>,
       <<"i", "m", "a", "g", "e", "/", "j", "p", "e", "g">>,
       <<"i", "m", "a", "g", "e", "/", "j", "p", "g">>,
       <<"i", "m", "a", "g", "e", "/", "p", "i", "c", "t">>,
       <<"i", "m", "a", "g", "e", "/", "p", "n", "g">>,
       <<"i", "m", "a", "g", "e", "/", "p", "r", "s", ".", "b", "t", "i", "f">>,
       <<"i", "m", "a", "g", "e", "/", "s", "v", "g", "+", "x", "m", "l">>,
       <<"i", "m", "a", "g", "e", "/", "t", "i", "f", "f">>,
       <<"i", "m", "a", "g", "e", "/", "v", "n", "d", ".", "a", "d", "o", "b", "e", ".", "p", "h", "o", "t", "o", "s", "h", "o", "p">>,
       <<"i", "m", "a", "g", "e", "/", "v", "n", "d", ".", "d", "j", "v", "u">>,
       <<"i", "m", "a", "g", "e", "/", "v", "n", "d", ".", "d", "w", "g">>,
       <<"i", "m", "a", "g", "e", "/", "v", "n", "d", ".", "d", "x", "f">>,
       <<"i", "m", "a", "g", "e", "/", "v", "n", "d", ".", "f", "a", "s", "t", "b", "i", "d", "s", "h", "e", "e", "t">>,
       <<"i", "m", "a", "g", "e", "/", "v", "n", "d", ".", "f", "p", "x">>,
       <<"i", "m", "a", "g", "e", "/", "v", "n", "d", ".", "f", "s", "t">>,
       <<"i", "m", "a", "g", "e", "/", "v", "n", "d", ".", "f", "u", "j", "i", "x", "e", "r", "o", "x", ".", "e", "d", "m", "i", "c", "s", "-", "m", "m", "r">>,
       <<"i", "m", "a", "g", "e", "/", "v", "n", "d", ".", "f", "u", "j", "i", "x", "e", "r", "o", "x", ".", "e", "d", "m", "i", "c", "s", "-", "r", "l", "c">>,
       <<"i", "m", "a", "g", "e", "/", "v", "n", "d", ".", "m", "i", "c", "r", "o", "s", "o", "f", "t", ".", "i", "c", "o", "n">>,
       <<"i", "m", "a", "g", "e", "/", "v", "n", "d", ".", "m", "s", "-", "m", "o", "d", "i">>,
       <<"i", "m", "a", "g", "e", "/", "v", "n", "d", ".", "n", "e", "t", "-", "f", "p", "x">>,
       <<"i", "m", "a", "g", "e", "/", "v", "n", "d", ".", "w", "a", "p", ".", "w", "b", "m", "p">>,
       <<"i", "m", "a", "g", "e", "/", "v", "n", "d", ".", "x", "i", "f", "f">>,
       <<"i", "m", "a", "g", "e", "/", "w", "e", "b", "p">>,
       <<"i", "m", "a", "g", "e", "/", "a", "v", "i", "f">>,
       <<"i", "m", "a", "g", "e", "/", "h", "e", "i", "c">>,
       <<"i", "m", "a", "g", "e", "/", "h", "e", "i", "f">>,
       <<"i", "m", "a", "g", "e", "/", "x", "-", "c", "m", "u", "-", "r", "a", "s", "t", "e", "r">>,
       <<"i", "m", "a", "g", "e", "/", "x", "-", "c", "m", "x">>,
       <<"i", "m", "a", "g", "e", "/", "x", "-", "i", "c", "o", "n">>,
       <<"i", "m", "a", "g", "e", "/", "x", "-", "m", "a", "c", "p", "a", "i", "n", "t">>,
       <<"i", "m", "a", "g", "e", "/", "x", "-", "p", "c", "x">>,
       <<"i", "m", "a", "g", "e", "/", "x", "-", "p", "i", "c", "t">>,
       <<"i", "m", "a", "g", "e", "/", "x", "-", "p", "o", "r", "t", "a", "b", "l", "e", "-", "a", "n", "y", "m", "a", "p">>,
       <<"i", "m", "a", "g", "e", "/", "x", "-", "p", "o", "r", "t", "a", "b", "l", "e", "-", "b", "i", "t", "m", "a", "p">>,
       <<"i", "m", "a", "g", "e", "/", "x", "-", "p", "o", "r", "t", "a", "b", "l", "e", "-", "g", "r", "a", "y", "m", "a", "p">>,
       <<"i", "m", "a", "g", "e", "/", "x", "-", "p", "o", "r", "t", "a", "b", "l", "e", "-", "p", "i", "x", "m", "a", "p">>,
       <<"i", "m", "a", "g", "e", "/", "x", "-", "q", "u", "i", "c", "k", "t", "i", "m", "e">>,
       <<"i", "m", "a", "g", "e", "/", "x", "-", "r", "g", "b">>,
       <<"i", "m", "a", "g", "e", "/", "x", "-", "x", "b", "i", "t", "m", "a", "p">>,
       <<"i", "m", "a", "g", "e", "/", "x", "-", "x", "p", "i", "x", "m", "a", "p">>,
       <<"i", "m", "a", "g", "e", "/", "x", "-", "x", "w", "i", "n", "d", "o", "w", "d", "u", "m", "p">> >>

\* VIDEO_TYPES
VIDEO_TYPES ==
    << <<"v", "i", "d", "e", "o", "/", "m", "p", "4">>,
       <<"v", "i", "d", "e", "o", "/", "w", "e", "b", "m">>,
       <<"v", "i", "d", "e", "o", "/", "o", "g", "g">>,
       <<"v", "i", "d", "e", "o", "/", "q", "u", "i", "c", "k", "t", "i", "m", "e">>,
       <<"v", "i", "d", "e", "o", "/", "x", "-", "m", "s", "v", "i", "d", "e", "o">> >>

\* AUDIO_TYPES
AUDIO_TYPES ==
    << <<"a", "u", "d", "i", "o", "/", "m", "p", "e", "g">>,
       <<"a", "u", "d", "i", "o", "/", "o", "g", "g">>,
       <<"a", "u", "d", "i", "o", "/", "w", "a", "v">>,
       <<"a", "u", "d", "i", "o", "/", "w", "e", "b", "m">>,
       <<"a", "u", "d", "i", "o", "/", "f", "l", "a", "c">> >>

\* the image list of Cli::allowed_content_types, in its own order
CliImageTypes ==
    << <<"i", "m", "a", "g", "e", "/", "b", "m", "p">>,
       <<"i", "m", "a", "g", "e", "/", "c", "g", "m">>,
       <<"i", "m", "a", "g", "e", "/", "g", "3", "f", "a", "x">>,
       <<"i", "m", "a", "g", "e", "/", "g", "i", "f">>,
       <<"i", "m", "a", "g", "e", "/", "i", "e", "f">>,
       <<"i", "m", "a", "g", "e", "/", "j", "p", "2">>,
       <<"i", "m", "a", "g", "e", "/", "j", "p", "e", "g">>,
       <<"i", "m", "a", "g", "e", "/", "j", "p", "g">>,
       <<"i", "m", "a", "g", "e", "/", "p", "i", "c", "t">>,
       <<"i", "m", "a", "g", "e", "/", "p", "n", "g">>,
       <<"i", "m", "a", "g", "e", "/", "p", "r", "s", ".", "b", "t", "i", "f">>,
       <<"i", "m", "a", "g", "e", "/", "s", "v", "g", "+", "x", "m", "l">>,
       <<"i", "m", "a", "g", "e", "/", "t", "i", "f", "f">>,
       <<"i", "m", "a", "g", "e", "/", "v", "n", "d", ".", "a", "d", "o", "b", "e", ".", "p", "h", "o", "t", "o", "s", "h", "o", "p">>,
       <<"i", "m", "a", "g", "e", "/", "v", "n", "d", ".", "d", "j", "v", "u">>,
       <<"i", "m", "a", "g", "e", "/", "v", "n", "d", ".", "d", "w", "g">>,
       <<"i", "m", "a", "g", "e", "/", "v", "n", "d", ".", "d", "x", "f">>,
       <<"i", "m", "a", "g", "e", "/", "v", "n", "d", ".", "f", "a", "s", "t", "b", "i", "d", "s", "h", "e", "e", "t">>,
       <<"i", "m", "a", "g", "e", "/", "v", "n", "d", ".", "f", "p", "x">>,
       <<"i", "m", "a", "g", "e", "/", "v", "n", "d", ".", "f", "s", "t">>,
       <<"i", "m", "a", "g", "e", "/", "v", "n", "d", ".", "f", "u", "j", "i", "x", "e", "r", "o", "x", ".", "e", "d", "m", "i", "c", "s", "-", "m", "m", "r">>,
       <<"i", "m", "a", "g", "e", "/", "v", "n", "d", ".", "f", "u", "j", "i", "x", "e", "r", "o", "x", ".", "e", "d", "m", "i", "c", "s", "-", "r", "l", "c">>,
       <<"i", "m", "a", "g", "e", "/", "v", "n", "d", ".", "m", "i", "c", "r", "o", "s", "o", "f", "t", ".", "i", "c", "o", "n">>,
       <<"i", "m", "a", "g", "e", "/", "v", "n", "d", ".", "m", "s", "-", "m", "o", "d", "i">>,
       <<"i", "m", "a", "g", "e", "/", "v", "n", "d", ".", "n", "e", "t", "-", "f", "p", "x">>,
       <<"i", "m", "a", "g", "e", "/", "v", "n", "d", ".", "w", "a", "p", ".", "w", "b", "m", "p">>,
       <<"i", "m", "a", "g", "e", "/", "v", "n", "d", ".", "x", "i", "f", "f">>,
       <<"i", "m", "a", "g", "e", "/", "w", "e", "b", "p">>,
       <<"i", "m", "a", "g", "e", "/", "x", "-", "c", "m", "u", "-", "r", "a", "s", "t", "e", "r">>,
       <<"i", "m", "a", "g", "e", "/", "x", "-", "c", "m", "x">>,
       <<"i", "m", "a", "g", "e", "/", "x", "-", "i", "c", "o", "n">>,
       <<"i", "m", "a", "g", "e", "/", "x", "-", "m", "a", "c", "p", "a", "i", "n", "t">>,
       <<"i", "m", "a", "g", "e", "/", "x", "-", "p", "c", "x">>,
       <<"i", "m", "a", "g", "e", "/", "x", "-", "p", "i", "c", "t">>,
       <<"i", "m", "a", "g", "e", "/", "x", "-", "p", "o", "r", "t", "a", "b", "l", "e", "-", "a", "n", "y", "m", "a", "p">>,
       <<"i", "m", "a", "g", "e", "/", "x", "-", "p", "o", "r", "t", "a", "b", "l", "e", "-", "b", "i", "t", "m", "a", "p">>,
       <<"i", "m", "a", "g", "e", "/", "x", "-", "p", "o", "r", "t", "a", "b", "l", "e", "-", "g", "r", "a", "y", "m", "a", "p">>,
       <<"i", "m", "a", "g", "e", "/", "x", "-", "p", "o", "r", "t", "a", "b", "l", "e", "-", "p", "i", "x", "m", "a", "p">>,
       <<"i", "m", "a", "g", "e", "/", "x", "-", "q", "u", "i", "c", "k", "t", "i", "m", "e">>,
       <<"i", "m", "a", "g", "e", "/", "x", "-", "r", "g", "b">>,
       <<"i", "m", "a", "g", "e", "/", "x", "-", "x", "b", "i", "t", "m", "a", "p">>,
       <<"i", "m", "a", "g", "e", "/", "x", "-", "x", "p", "i", "x", "m", "a", "p">>,
       <<"i", "m", "a", "g", "e", "/", "x", "-", "x", "w", "i", "n", "d", "o", "w", "d", "u", "m", "p">>,
       <<"i", "m", "a", "g", "e", "/", "a", "v", "i", "f">>,
       <<"i", "m", "a", "g", "e", "/", "h", "e", "i", "c">>,
       <<"i", "m", "a", "g", "e", "/", "h", "e", "i", "f">> >>


Upper == <<"A", "B", "C", "D", "E", "F", "G", "H", "I", "J", "K", "L", "M",
           "N", "O", "P", "Q", "R", "S", "T", "U", "V", "W", "X", "Y", "Z">>
Lower == <<"a", "b", "c", "d", "e", "f", "g", "h", "i", "j", "k", "l", "m",
           "n", "o", "p", "q", "r", "s", "t", "u", "v", "w", "x", "y", "z">>

\* str::to_lowercase on ASCII text
ToLowerChar(c) ==
    IF \E i \in 1..26 : Upper[i] = c
    THEN Lower[CHOOSE i \in 1..26 : Upper[i] = c]
    ELSE c

ToLowercase(s) == [i \in 1..Len(s) |-> ToLowerChar(s[i])]

\* split(';').next(): the text before the first ';', all of it if there is none
FirstSegment(s) ==
    LET semis == { i \in 1..Len(s) : s[i] = ";" }
    IN  IF semis = {} THEN s
        ELSE SubSeq(s, 1, (CHOOSE i \in semis : \A j \in semis : i <= j) - 1)

IsWhitespace(c) == c \in {" ", "\t"}

\* str::trim
RECURSIVE Trim(_)
Trim(s) ==
    IF s = <<>> THEN s
    ELSE IF IsWhitespace(s[1]) THEN Trim(Tail(s))
    ELSE IF IsWhitespace(s[Len(s)]) THEN Trim(SubSeq(s, 1, Len(s) - 1))
    ELSE s

\* the mime type without the lower-casing
MimeType_CaseSensitive(content_type) == Trim(FirstSegment(content_type))

\* let ct_lower = content_type.to_lowercase();
\* let mime_type = ct_lower.split(';').next().unwrap_or("").trim();
MimeType(content_type) == Trim(FirstSegment(ToLowercase(content_type)))

\* iter().any(|allowed| *allowed == mime_type)
Contains(list, x) == \E i \in 1..Len(list) : list[i] = x

\* allowed_content_types with the audio types gated on the video flag
ConfigAllowedContentTypes_AudioOnVideoFlag(c) ==
    IMAGE_TYPES
        \o (IF c.allow_video THEN VIDEO_TYPES ELSE <<>>)
        \o (IF c.allow_video THEN AUDIO_TYPES ELSE <<>>)

\* Config::allowed_content_types (server/config.rs)
ConfigAllowedContentTypes(c) ==
    IMAGE_TYPES
        \o (IF c.allow_video THEN VIDEO_TYPES ELSE <<>>)
        \o (IF c.allow_audio THEN AUDIO_TYPES ELSE <<>>)

\* Cli::allowed_content_types (config.rs)
CliAllowedContentTypes(c) ==
    CliImageTypes
        \o (IF c.allow_video THEN VIDEO_TYPES ELSE <<>>)
        \o (IF c.allow_audio THEN AUDIO_TYPES ELSE <<>>)

\* Config::is_allowed_content_type (server/config.rs)
ConfigIsAllowedContentType(c, content_type) ==
    Contains(ConfigAllowedContentTypes(c), MimeType(content_type))

\* ProxyClient::is_allowed_content_type (proxy.rs)
ProxyClientIsAllowedContentType(c, content_type) ==
    Contains(CliAllowedContentTypes(c), MimeType(content_type))

\* is_allowed_image_type (server/content_types.rs)
IsAllowedImageType(content_type) == Contains(IMAGE_TYPES, MimeType(content_type))

\* is_allowed_content_type (server/content_types.rs)
IsAllowedContentType(content_type, allow_video, allow_audio) ==
    LET mime_type == MimeType(content_type)
    IN  IF Contains(IMAGE_TYPES, mime_type) THEN TRUE
        ELSE IF allow_video /\ Contains(VIDEO_TYPES, mime_type) THEN TRUE
        ELSE IF allow_audio /\ Contains(AUDIO_TYPES, mime_type) THEN TRUE
        ELSE FALSE

(***************************************************************************)
(* Policy harness: a configuration and a declared content type are drawn,  *)
(* and every implementation of the policy is asked about it.               *)
(***************************************************************************)
MaxSize == 2            \* config.max_size of the modelled configurations

\* "k"
PolicyKey == <<107>>

PolicyConfigs ==
    [ key : {PolicyKey}, max_size : {MaxSize}, allow_video : BOOLEAN,
      allow_audio : BOOLEAN, block_private : {TRUE} ]

Text(n) ==
    CASE n = "png" -> <<"i", "m", "a", "g", "e", "/", "p", "n", "g">>
      [] n = "PNG" -> <<"I", "M", "A", "G", "E", "/", "P", "N", "G">>
      [] n = "Jpeg" -> <<"I", "m", "a", "g", "e", "/", "J", "p", "e", "g">>
      [] n = "heif" -> <<"i", "m", "a", "g", "e", "/", "h", "e", "i", "f">>
      [] n = "pn" -> <<"i", "m", "a", "g", "e", "/", "p", "n">>
      [] n = "pngx" -> <<"i", "m", "a", "g", "e", "/", "p", "n", "g", "x">>
      [] n = "mp4" -> <<"v", "i", "d", "e", "o", "/", "m", "p", "4">>
      [] n = "WebM" -> <<"V", "i", "d", "e", "o", "/", "W", "e", "b", "M">>
      [] n = "vogg" -> <<"v", "i", "d", "e", "o", "/", "o", "g", "g">>
      [] n = "aogg" -> <<"a", "u", "d", "i", "o", "/", "o", "g", "g">>
      [] n = "flac" -> <<"a", "u", "d", "i", "o", "/", "f", "l", "a", "c">>
      [] n = "html" -> <<"t", "e", "x", "t", "/", "h", "t", "m", "l">>
      [] n = "empty" -> <<>>
      [] n = "charset" -> <<";", " ", "c", "h", "a", "r", "s", "e", "t", "=",
                            "b", "i", "n", "a", "r", "y">>
      [] n = "spaced" -> <<" ", ";", "q", "=", "1">>
      [] n = "semi" -> <<";">>
      [] n = "then-png" -> <<";", "i", "m", "a", "g", "e", "/", "p", "n", "g">>
      [] n = "space" -> <<" ">>

DeclaredLeads == { Text("empty"), Text("space") }
DeclaredTypes ==
    { Text(n) : n \in {"png", "PNG", "Jpeg", "heif", "pn", "pngx", "mp4", "WebM",
                       "vogg", "aogg", "flac", "html", "empty"} }
DeclaredTails ==
    { Text(n) : n \in {"empty", "charset", "spaced", "semi", "then-png"} }

DeclaredContentTypes ==
    { l \o t \o r : l \in DeclaredLeads, t \in DeclaredTypes, r \in DeclaredTails }

PolicyInit ==
    /\ config \in PolicyConfigs
    /\ declared \in DeclaredContentTypes
    /\ policy = <<>>
    /\ SignerIdle
    /\ EncoderIdle
    /\ PipelineIdle
    /\ LibraryIdle

CheckContentType ==
    /\ policy = <<>>
    /\ policy' = << [ config |-> ConfigIsAllowedContentType(config, declared),
                      proxy |-> ProxyClientIsAllowedContentType(config, declared),
                      free |-> IsAllowedContentType(declared, config.allow_video,
                                                    config.allow_audio),
                      image |-> IsAllowedImageType(declared) ] >>
    /\ UNCHANGED <<config, declared, svars, evars, lvars, rvars>>

PolicyNext == CheckContentType

SpecPolicy == PolicyInit /\ [][PolicyNext]_vars

Range(list) == { list[i] : i \in 1..Len(list) }

\* the declared type lower-cased and cut at its first ';'
LoweredSegment(ct) ==
    LET lowered == [i \in 1..Len(ct) |->
                      IF \E k \in 1..26 : Upper[k] = ct[i]
                      THEN Lower[CHOOSE k \in 1..26 : Upper[k] = ct[i]]
                      ELSE ct[i]]
        cut == IF \E i \in 1..Len(ct) : ct[i] = ";"
               THEN (CHOOSE i \in 1..Len(ct) :
                        ct[i] = ";" /\ \A j \in 1..(i - 1) : ct[j] # ";") - 1
               ELSE Len(ct)
    IN  SubSeq(lowered, 1, cut)

ActiveTypes(c) ==
    Range(IMAGE_TYPES)
        \cup (IF c.allow_video THEN Range(VIDEO_TYPES) ELSE {})
        \cup (IF c.allow_audio THEN Range(AUDIO_TYPES) ELSE {})

\* C6 as stated: isAllowed lower-cases the declared content type, discards
\* everything from the first ';' onward, and returns true exactly when the
\* remaining type is a member of the active allowed set.
C6_AllowedIffSegmentIsMember ==
    policy # <<>> =>
        LET member == LoweredSegment(declared) \in ActiveTypes(config)
        IN  /\ policy[1].config = member
            /\ policy[1].proxy = member
            /\ policy[1].free = member

\* C6 as amended: isAllowed lower-cases the declared content type, discards
\* everything from the first ';' onward, strips the white space around what
\* is left, and returns true exactly when that is a member of the active
\* allowed set.
C6_AllowedIffTrimmedSegmentIsMember ==
    policy # <<>> =>
        LET seg == LoweredSegment(declared)
            member ==
                \E t \in ActiveTypes(config) :
                    \E i \in 1..Len(seg) :
                        /\ i + Len(t) - 1 <= Len(seg)
                        /\ SubSeq(seg, i, i + Len(t) - 1) = t
                        /\ \A j \in 1..(i - 1) : IsWhitespace(seg[j])
                        /\ \A j \in (i + Len(t))..Len(seg) : IsWhitespace(seg[j])
        IN  /\ policy[1].config = member
            /\ policy[1].proxy = member
            /\ policy[1].free = member

\* "IMAGE/PNG ;q=1" style input: upper case, a parameter, white space kept
\* before the ';'
C6_Witness ==
    /\ policy # <<>> /\ policy[1].config
    /\ \E i \in 1..Len(declared) : declared[i] = ";"
    /\ \E i \in 1..Len(declared) : declared[i] = "G"
    /\ LoweredSegment(declared) \notin ActiveTypes(config)

\* C8: the active allowed-type set always contains the fixed image set; it
\* contains the video types iff allow_video is set and the audio types iff
\* allow_audio is set, so a video or audio type is rejected whenever its flag
\* is off and accepted whenever its flag is on.
C8_ActiveSetFollowsFlags ==
    policy # <<>> =>
        \A types \in {Range(ConfigAllowedContentTypes(config)),
                      Range(CliAllowedContentTypes(config))} :
            /\ Range(IMAGE_TYPES) \subseteq types
            /\ \A v \in Range(VIDEO_TYPES) : (v \in types) <=> config.allow_video
            /\ \A a \in Range(AUDIO_TYPES) : (a \in types) <=> config.allow_audio
            /\ \A v \in Range(VIDEO_TYPES) :
                   declared = v =>
                       /\ policy[1].config = config.allow_video
                       /\ policy[1].proxy = config.allow_video
                       /\ policy[1].free = config.allow_video
            /\ \A a \in Range(AUDIO_TYPES) :
                   declared = a =>
                       /\ policy[1].config = config.allow_audio
                       /\ policy[1].proxy = config.allow_audio
                       /\ policy[1].free = config.allow_audio

\* an audio type judged with the audio flag on and the video flag off
C8_Witness ==
    /\ policy # <<>>
    /\ declared \in Range(AUDIO_TYPES)
    /\ config.allow_audio /\ ~config.allow_video
    /\ policy[1].config

(***************************************************************************)
(* The signing library (lib.rs: CamoUrl, SignedUrl) and the sign command   *)
(* (main.rs).  SignedUrl is [original_url, digest, encoded_url, encoding]. *)
(***************************************************************************)
MaxSwitches == 3        \* base64() / hex() calls made on one SignedUrl

\* "/"
Slash == <<47>>

\* trim_end_matches that removes one trailing '/' only
TrimEndMatches_Once(s, c) ==
    IF s # <<>> /\ s[Len(s)] = c THEN SubSeq(s, 1, Len(s) - 1) ELSE s

\* str::trim_end_matches(c)
RECURSIVE TrimEndMatches(_, _)
TrimEndMatches(s, c) ==
    IF s # <<>> /\ s[Len(s)] = c
        THEN TrimEndMatches(SubSeq(s, 1, Len(s) - 1), c)
    ELSE s

\* CamoUrl::new(key).with_encoding(encoding)
CamoUrlNew(k, enc) == [key |-> k, default_encoding |-> enc]

\* sign with the digest taken over the encoded URL
CamoUrlSign_DigestOfEncoded(c, u) ==
    [ original_url |-> u,
      digest |-> GenerateDigest(c.key, IF c.default_encoding = "Hex"
                                           THEN EncodeUrlHex(u)
                                       ELSE EncodeUrlBase64(u)),
      encoded_url |-> IF c.default_encoding = "Hex" THEN EncodeUrlHex(u)
                      ELSE EncodeUrlBase64(u),
      encoding |-> c.default_encoding ]

\* CamoUrl::sign
CamoUrlSign(c, u) ==
    [ original_url |-> u,
      digest |-> GenerateDigest(c.key, u),
      encoded_url |-> IF c.default_encoding = "Hex" THEN EncodeUrlHex(u)
                      ELSE EncodeUrlBase64(u),
      encoding |-> c.default_encoding ]

\* SignedUrl::to_url
ToUrl(su, b) ==
    TrimEndMatches(b, 47) \o Slash \o su.digest \o Slash \o su.encoded_url

\* SignedUrl::to_path
ToPath(su) == Slash \o su.digest \o Slash \o su.encoded_url

\* base64() that sets the encoding field and keeps the encoded URL
SignedUrlBase64_FieldOnly(su) == [su EXCEPT !.encoding = "Base64"]

\* SignedUrl::base64
SignedUrlBase64(su) ==
    IF su.encoding # "Base64"
        THEN [su EXCEPT !.encoded_url = EncodeUrlBase64(su.original_url),
                        !.encoding = "Base64"]
    ELSE su

\* SignedUrl::hex
SignedUrlHex(su) ==
    IF su.encoding # "Hex"
        THEN [su EXCEPT !.encoded_url = EncodeUrlHex(su.original_url),
                        !.encoding = "Hex"]
    ELSE su

\* "Digest: ", "Encoded URL: ", "Path: "
DigestLabel == <<68, 105, 103, 101, 115, 116, 58, 32>>
EncodedUrlLabel == <<69, 110, 99, 111, 100, 101, 100, 32, 85, 82, 76, 58, 32>>
PathLabel == <<80, 97, 116, 104, 58, 32>>

\* main.rs, Command::Sign: the lines printed
SignCommandLines(k, u, b, base64) ==
    LET d == GenerateDigest(k, u)
        e == IF base64 THEN EncodeUrlBase64(u) ELSE EncodeUrlHex(u)
    IN  IF b = <<>>
            THEN << DigestLabel \o d,
                    EncodedUrlLabel \o e,
                    PathLabel \o Slash \o d \o Slash \o e >>
        ELSE << TrimEndMatches(b, 47) \o Slash \o d \o Slash \o e >>

\* "k", "s3"
LibraryKeys == { <<107>>, <<115, 51>> }

\* "http://a", "https://b", "so:", "a", U+00E9
LibraryUrls == { <<104, 116, 116, 112, 58, 47, 47, 97>>,
                 <<104, 116, 116, 112, 115, 58, 47, 47, 98>>,
                 <<115, 111, 58>>, <<97>>, <<195, 169>> }

\* "", "/", "b", "b/", "b//", "/b//", "b/c///"
LibraryBases == { <<>>, <<47>>, <<98>>, <<98, 47>>, <<98, 47, 47>>,
                  <<47, 98, 47, 47>>, <<98, 47, 99, 47, 47, 47>> }

LibraryInit ==
    /\ camo \in { Some(CamoUrlNew(k, e)) : k \in LibraryKeys, e \in {"Hex", "Base64"} }
    /\ signed = None /\ first = None /\ prev = None
    /\ switches = 0 /\ output = None
    /\ SignerIdle
    /\ EncoderIdle
    /\ PolicyIdle
    /\ config = <<>>
    /\ PipelineIdle

Sign ==
    /\ signed = None /\ output = None
    /\ \E u \in LibraryUrls :
        /\ signed' = Some(CamoUrlSign(camo[1], u))
        /\ first' = Some(CamoUrlSign(camo[1], u))
    /\ UNCHANGED <<camo, prev, switches, output, svars, evars, pvars, config, rvars>>

SwitchBase64 ==
    /\ signed # None /\ output = None /\ switches < MaxSwitches
    /\ prev' = Some(<<"base64", signed[1]>>)
    /\ signed' = Some(SignedUrlBase64(signed[1]))
    /\ switches' = switches + 1
    /\ UNCHANGED <<camo, first, output, svars, evars, pvars, config, rvars>>

SwitchHex ==
    /\ signed # None /\ output = None /\ switches < MaxSwitches
    /\ prev' = Some(<<"hex", signed[1]>>)
    /\ signed' = Some(SignedUrlHex(signed[1]))
    /\ switches' = switches + 1
    /\ UNCHANGED <<camo, first, output, svars, evars, pvars, config, rvars>>

CallToUrl ==
    /\ signed # None /\ output = None
    /\ \E b \in LibraryBases :
        output' = Some([op |-> "to_url", base |-> b, text |-> ToUrl(signed[1], b)])
    /\ UNCHANGED <<camo, signed, first, prev, switches, svars, evars, pvars,
                   config, rvars>>

CallToPath ==
    /\ signed # None /\ output = None
    /\ output' = Some([op |-> "to_path", text |-> ToPath(signed[1])])
    /\ UNCHANGED <<camo, signed, first, prev, switches, svars, evars, pvars,
                   config, rvars>>

\* camo sign <url> [--base <base>] [--base64], with the key of the configuration
SignCommand ==
    /\ signed = None /\ output = None
    /\ \E u \in LibraryUrls, b \in LibraryBases :
        output' = Some([op |-> "sign", url |-> u, base |-> b,
                        lines |-> SignCommandLines(camo[1].key, u, b,
                                      camo[1].default_encoding = "Base64")])
    /\ UNCHANGED <<camo, signed, first, prev, switches, svars, evars, pvars,
                   config, rvars>>

LibraryNext ==
    Sign \/ SwitchBase64 \/ SwitchHex \/ CallToUrl \/ CallToPath \/ SignCommand

SpecLibrary == LibraryInit /\ [][LibraryNext]_vars

\* C19: for a signed URL, to_url(base) yields exactly
\* <base>/<digest>/<encodedUrl> with all trailing '/' of base removed, and
\* to_path() yields /<digest>/<encodedUrl>; the sign command prints the same
\* form when a base is given and the digest, encoded URL and path otherwise.
C19_ToUrlAndToPathForm ==
    output # None =>
        LET o == output[1]
            \* b with all its trailing '/' removed, then /d/e
            joined(b, d, e) ==
                LET n == CHOOSE k \in 0..Len(b) :
                            /\ \A i \in (k + 1)..Len(b) : b[i] = 47
                            /\ k > 0 => b[k] # 47
                IN  SubSeq(b, 1, n) \o <<47>> \o d \o <<47>> \o e
        IN  CASE o.op = "to_url" ->
                   o.text = joined(o.base, signed[1].digest, signed[1].encoded_url)
              [] o.op = "to_path" ->
                   o.text = <<47>> \o signed[1].digest \o <<47>>
                                \o signed[1].encoded_url
              [] o.op = "sign" ->
                   LET d == GenerateDigest(camo[1].key, o.url)
                       e == IF camo[1].default_encoding = "Base64"
                            THEN EncodeUrlBase64(o.url) ELSE EncodeUrlHex(o.url)
                   IN  IF o.base # <<>>
                           THEN o.lines = << joined(o.base, d, e) >>
                       ELSE o.lines = << DigestLabel \o d, EncodedUrlLabel \o e,
                                         PathLabel \o <<47>> \o d \o <<47>> \o e >>

\* to_url was called with the base "b//" on a base64 SignedUrl
C19_Witness ==
    /\ output # None /\ output[1].op = "to_url"
    /\ output[1].base = <<98, 47, 47>>
    /\ signed[1].encoding = "Base64"
    /\ SubSeq(output[1].text, 1, 2) = <<98, 47>>
    /\ output[1].text[3] # 47

\* the sign command ran with a base that ends in several '/'
C19_WitnessCommand ==
    /\ output # None /\ output[1].op = "sign"
    /\ output[1].base = <<98, 47, 99, 47, 47, 47>>
    /\ Len(output[1].lines) = 1

\* C20: switching a SignedUrl's encoding with base64() and hex(), in any
\* sequence, leaves digest and original_url unchanged and always leaves
\* encoded_url equal to the encoding of original_url in the format named by
\* the encoding field; hex() after base64() restores the original hex
\* encoded_url, and switching to the current encoding is a no-op.
C20_EncodingSwitch ==
    signed # None =>
        LET su == signed[1]
        IN  /\ su.digest = first[1].digest
            /\ su.original_url = first[1].original_url
            /\ su.encoding \in {"Hex", "Base64"}
            /\ su.encoded_url =
                   IF su.encoding = "Hex" THEN EncodeUrlHex(su.original_url)
                   ELSE EncodeUrlBase64(su.original_url)
            /\ (su.encoding = "Hex" /\ first[1].encoding = "Hex") => su = first[1]
            /\ prev # None =>
                  LET op == prev[1][1]
                      before == prev[1][2]
                      named == IF op = "base64" THEN "Base64" ELSE "Hex"
                  IN  /\ su.encoding = named
                      /\ before.encoding = named => su = before

\* a hex SignedUrl was switched to base64 and back to hex
C20_Witness ==
    /\ signed # None /\ prev # None
    /\ first[1].encoding = "Hex"
    /\ prev[1][1] = "hex" /\ prev[1][2].encoding = "Base64"
    /\ signed = first
    /\ switches >= 2

\* base64() was called on a SignedUrl that is already base64
C20_WitnessNoOp ==
    /\ signed # None /\ prev # None
    /\ prev[1][1] = "base64" /\ prev[1][2].encoding = "Base64"

(***************************************************************************)
(* URL parsing and the network guard.                                      *)
(***************************************************************************)
IsAlpha(c) == c \in 65..90 \/ c \in 97..122
IsSchemeChar(c) == IsAlpha(c) \/ c \in 48..57 \/ c \in {43, 45, 46}
LowerByte(c) == IF c \in 65..90 THEN c + 32 ELSE c

StartsWith(s, prefix) ==
    Len(s) >= Len(prefix) /\ SubSeq(s, 1, Len(prefix)) = prefix

\* "http", "https", "http://", "https://"
HttpScheme == <<104, 116, 116, 112>>
HttpsScheme == <<104, 116, 116, 112, 115>>
HttpPrefix == <<104, 116, 116, 112, 58, 47, 47>>
HttpsPrefix == <<104, 116, 116, 112, 115, 58, 47, 47>>

RECURSIVE SkipSlashes(_)
SkipSlashes(s) ==
    IF s # <<>> /\ Head(s) \in {47, 92} THEN SkipSlashes(Tail(s)) ELSE s

RECURSIVE HostOf(_)
HostOf(s) ==
    IF s = <<>> \/ Head(s) \in {47, 63, 35} THEN <<>>
    ELSE <<Head(s)>> \o HostOf(Tail(s))

\* a parser that takes any string for an http URL
UrlParse_Lenient(u) == Some([scheme |-> HttpScheme, host |-> u])

\* url::Url::parse on an absolute URL string: Err without a scheme
\* ([A-Za-z][A-Za-z0-9+.-]* before the first ':'), and Err for http/https
\* with an empty host; the scheme is lower-cased.
UrlParse(u) ==
    LET colons == { i \in 1..Len(u) : u[i] = 58 }
        n == CHOOSE i \in colons : \A j \in colons : i <= j
        scheme == [i \in 1..(n - 1) |-> LowerByte(u[i])]
        host == HostOf(SkipSlashes(SubSeq(u, n + 1, Len(u))))
    IN  IF colons = {} THEN None
        ELSE IF n = 1 \/ ~IsAlpha(u[1]) THEN None
        ELSE IF \E i \in 1..(n - 1) : ~IsSchemeChar(u[i]) THEN None
        ELSE IF scheme \in {HttpScheme, HttpsScheme} /\ host = <<>> THEN None
        ELSE Some([scheme |-> scheme, host |-> host])

\* is_private_ip: an IPv4 address is <<a, b, c, d>>, an IPv6 address its
\* eight 16-bit segments.
IsPrivateIp(ip) ==
    IF Len(ip) = 4
    THEN \/ ip[1] = 10                                    \* is_private
         \/ (ip[1] = 172 /\ ip[2] \in 16..31)
         \/ (ip[1] = 192 /\ ip[2] = 168)
         \/ ip[1] = 127                                   \* is_loopback
         \/ (ip[1] = 169 /\ ip[2] = 254)                  \* is_link_local
         \/ ip = <<255, 255, 255, 255>>                   \* is_broadcast
         \/ (ip[1] = 192 /\ ip[2] = 0 /\ ip[3] = 2)       \* is_documentation
         \/ (ip[1] = 198 /\ ip[2] = 51 /\ ip[3] = 100)
         \/ (ip[1] = 203 /\ ip[2] = 0 /\ ip[3] = 113)
         \/ ip = <<0, 0, 0, 0>>                           \* is_unspecified
         \/ (ip[1] = 100 /\ (ip[2] \div 64) * 64 = 64)    \* 100.64.0.0/10
    ELSE \/ ip = <<0, 0, 0, 0, 0, 0, 0, 1>>
         \/ ip = <<0, 0, 0, 0, 0, 0, 0, 0>>

\* the check applied to the first resolved address only
AnyPrivate_FirstOnly(addrs) == Len(addrs) > 0 /\ IsPrivateIp(addrs[1])

\* the loop of check_private_network over the resolved addresses
AnyPrivate(addrs) == \E i \in 1..Len(addrs) : IsPrivateIp(addrs[i])

(***************************************************************************)
(* Errors (error.rs): the status CamoError::into_response gives each kind. *)
(***************************************************************************)
\* the status table with PrivateNetworkNotAllowed answered as a bad request
StatusOf_ForbiddenAsBadRequest(kind) ==
    CASE kind \in {"InvalidDigest", "InvalidUrlEncoding", "InvalidUrl",
                   "DigestMismatch", "PrivateNetworkNotAllowed"} -> 400
      [] kind = "ContentTypeNotAllowed" -> 415
      [] kind = "ContentTooLarge" -> 413
      [] kind \in {"TooManyRedirects", "Upstream"} -> 502
      [] kind = "Timeout" -> 504

StatusOf(kind) ==
    CASE kind \in {"InvalidDigest", "InvalidUrlEncoding", "InvalidUrl",
                   "DigestMismatch"} -> 400
      [] kind = "ContentTypeNotAllowed" -> 415
      [] kind = "ContentTooLarge" -> 413
      [] kind = "TooManyRedirects" -> 502
      [] kind = "Timeout" -> 504
      [] kind = "Upstream" -> 502
      [] kind = "PrivateNetworkNotAllowed" -> 403

\* e.into_response()
ErrorResponse(kind) == Some([kind |-> kind, status |-> StatusOf(kind)])

\* a response built in place: (StatusCode, text) or Response::error(text, code)
PlainResponse(kind, status) == Some([kind |-> kind, status |-> status])

(***************************************************************************)
(* The request pipeline.                                                   *)
(***************************************************************************)
BufSize == 2            \* largest chunk the upstream body arrives in
MaxExcess == 1          \* bytes a body may run past max_size + BufSize

MaxBody == MaxSize + BufSize + MaxExcess

Targets == {"server", "router", "worker"}

Stages == {"Idle", "Received", "DigestVerifying", "URLValidating",
           "NetworkChecking", "Fetching", "HeaderChecking", "Streaming",
           "Rejected", "Aborted", "Completed"}

\* "http://a", "https://b", "HTTP://a", "ftp://a", "a.png", "http://"
PipeUrls ==
    { <<104, 116, 116, 112, 58, 47, 47, 97>>,
      <<104, 116, 116, 112, 115, 58, 47, 47, 98>>,
      <<72, 84, 84, 80, 58, 47, 47, 97>>,
      <<102, 116, 112, 58, 47, 47, 97>>,
      <<97, 46, 112, 110, 103>>,
      <<104, 116, 116, 112, 58, 47, 47>> }

\* "%ff": no scheme decodes it
UndecodableToken == <<37, 102, 102>>

\* "0000"
WrongDigest == <<48, 48, 48, 48>>

PipeConfigs ==
    [ key : {PolicyKey}, max_size : {MaxSize}, allow_video : BOOLEAN,
      allow_audio : {FALSE}, block_private : BOOLEAN ]

PipeDigests(c) == { GenerateDigest(c.key, u) : u \in PipeUrls } \cup {WrongDigest}

PipeTokens ==
    { EncodeUrlHex(u) : u \in PipeUrls }
        \cup { EncodeUrlBase64(u) : u \in PipeUrls }
        \cup { UndecodableToken }

\* GET /{digest}/{encoded_url} and GET /{digest}?url=...
PipeRequests(c) ==
    { [route |-> "path", digest |-> d, encoded_url |-> Some(t), url |-> None] :
        d \in PipeDigests(c), t \in PipeTokens }
    \cup
    { [route |-> "query", digest |-> d, encoded_url |-> None, url |-> q] :
        d \in PipeDigests(c), q \in { Some(u) : u \in PipeUrls } \cup {None} }

PublicIp == <<93, 184, 216, 34>>

\* the addresses the HTTP client connects to when a fetch starts without a
\* preceding check_private_network: the client resolves the host itself.
\* 93.184.216.34, 10.0.0.1, 127.0.0.1, 169.254.1.1, 100.64.0.1, 100.128.0.1, ::1
ConnectAnswers ==
    { <<PublicIp>>, <<<<10, 0, 0, 1>>>>, <<<<127, 0, 0, 1>>>>,
      <<<<169, 254, 1, 1>>>>, <<<<100, 64, 0, 1>>>>, <<<<100, 128, 0, 1>>>>,
      <<PublicIp, <<10, 0, 0, 1>>>>, <<<<0, 0, 0, 0, 0, 0, 0, 1>>>> }

\* what lookup_host answers in check_private_network: the above, no address
\* at all, and addresses at and next to the edges of each range of
\* is_private_ip: 172.16.0.1, 172.31.255.255, 172.32.0.1, 192.168.1.1,
\* 255.255.255.255, 192.0.2.1, 198.51.100.1, 203.0.113.1, 0.0.0.0,
\* 100.63.255.255, 100.127.255.255, ::, fe80::1
LookupAnswers ==
    ConnectAnswers
    \cup { <<>>, << <<10, 0, 0, 1>>, PublicIp >> }
    \cup { <<ip>> : ip \in
            { <<172, 16, 0, 1>>, <<172, 31, 255, 255>>, <<172, 32, 0, 1>>,
              <<192, 168, 1, 1>>, <<255, 255, 255, 255>>, <<192, 0, 2, 1>>,
              <<198, 51, 100, 1>>, <<203, 0, 113, 1>>, <<0, 0, 0, 0>>,
              <<100, 63, 255, 255>>, <<100, 127, 255, 255>>,
              <<0, 0, 0, 0, 0, 0, 0, 0>>,
              <<65152, 0, 0, 0, 0, 0, 0, 1>> } }

\* the step started the fetch without check_private_network having resolved
\* the host: the client's own resolution decides where the connection goes
ConnectResolves == \E addrs \in ConnectAnswers : resolved' = Some(addrs)

Init ==
    /\ config \in PipeConfigs
    /\ target \in Targets
    /\ req = None
    /\ stage = "Idle"
    /\ stages = <<>>
    /\ resolved = None
    /\ resp = None
    /\ read = 0
    /\ sent = 0
    /\ fetches = 0
    /\ failure = None
    /\ outcome = None
    /\ downstream = "connected"
    /\ served = FALSE
    /\ SignerIdle
    /\ EncoderIdle
    /\ PolicyIdle
    /\ LibraryIdle

\* the request's stage trail extended by the stages in `more`, ending in the last
Enter(more) ==
    /\ stages' = stages \o more
    /\ stage' = more[Len(more)]

Reject(passed, response) ==
    /\ Enter(passed \o <<"Rejected">>)
    /\ outcome' = response

\* axum hands a request to proxy_path / proxy_query; the worker runtime hands
\* it to fetch.
Arrival ==
    /\ stage = "Idle"
    /\ \E r \in PipeRequests(config) : req' = Some(r)
    /\ Enter(<<"Received">>)
    /\ UNCHANGED <<config, target, downstream, served, resolved, resp, read, sent, fetches, failure,
                   outcome,
                   svars, evars, pvars, lvars>>

\* the target URL of the request: decode_url of the path token, or the url
\* query parameter
TargetUrl(r) == IF r.route = "path" THEN DecodeUrl(r.encoded_url[1]) ELSE r.url

NoUrlResponse(r) ==
    IF r.route = "path" THEN PlainResponse("InvalidUrlEncoding", 400)
    ELSE PlainResponse("MissingUrl", 400)

\* decode_url and verify_digest over the requests of the model, computed once
AllRequests == UNION { PipeRequests(c) : c \in PipeConfigs }
TargetOf == [r \in AllRequests |-> TargetUrl(r)]

\* the key and request pairs whose target URL decodes and whose digest
\* verify_digest accepts for it
VerifiedRequests ==
    UNION { { <<c.key, r>> :
                r \in { q \in PipeRequests(c) :
                          /\ TargetUrl(q) # None
                          /\ VerifyDigest(c.key, TargetUrl(q)[1], q.digest) } } :
            c \in PipeConfigs }

\* verify_digest(&key, &url, &digest) for request r, whose target decoded
DigestAccepted(k, r) == <<k, r>> \in VerifiedRequests

\* server.rs proxy_path / proxy_query, proxy_request, and ProxyClient::proxy
\* up to its first await (the host lookup, or the send).
ServerHandle ==
    /\ target = "server" /\ stage = "Received"
    /\ LET r == req[1]
           u == TargetOf[r]
           parsed == UrlParse(u[1])
       IN  IF u = None
               THEN Reject(<<>>, NoUrlResponse(r)) /\ UNCHANGED <<fetches, resolved>>
           ELSE IF ~DigestAccepted(config.key, r)
               THEN /\ Reject(<<"DigestVerifying">>, ErrorResponse("DigestMismatch"))
                    /\ UNCHANGED <<fetches, resolved>>
           ELSE IF parsed = None
               THEN /\ Reject(<<"DigestVerifying", "URLValidating">>,
                              ErrorResponse("InvalidUrl"))
                    /\ UNCHANGED <<fetches, resolved>>
           ELSE IF parsed[1].scheme # HttpScheme /\ parsed[1].scheme # HttpsScheme
               THEN /\ Reject(<<"DigestVerifying", "URLValidating">>,
                              ErrorResponse("InvalidUrl"))
                    /\ UNCHANGED <<fetches, resolved>>
           ELSE IF config.block_private
               THEN /\ Enter(<<"DigestVerifying", "URLValidating", "NetworkChecking">>)
                    /\ UNCHANGED <<outcome, fetches, resolved>>
           ELSE /\ Enter(<<"DigestVerifying", "URLValidating", "Fetching">>)
                /\ fetches' = fetches + 1
                /\ ConnectResolves
                /\ UNCHANGED outcome
    /\ UNCHANGED <<config, target, downstream, served, req, resp, read, sent, failure,
                   svars, evars, pvars, lvars>>

\* check_private_network after lookup_host answered
ServerLookupAnswer ==
    /\ target = "server" /\ stage = "NetworkChecking"
    /\ \E addrs \in LookupAnswers :
        /\ resolved' = Some(addrs)
        /\ IF AnyPrivate(addrs)
               THEN /\ Reject(<<>>, ErrorResponse("PrivateNetworkNotAllowed"))
                    /\ UNCHANGED fetches
           ELSE /\ Enter(<<"Fetching">>)
                /\ fetches' = fetches + 1
                /\ UNCHANGED outcome
    /\ UNCHANGED <<config, target, downstream, served, req, resp, read, sent, failure,
                   svars, evars, pvars, lvars>>

\* check_private_network when lookup_host fails: InvalidUrl
ServerLookupError ==
    /\ target = "server" /\ stage = "NetworkChecking"
    /\ Reject(<<>>, ErrorResponse("InvalidUrl"))
    /\ UNCHANGED <<config, target, downstream, served, req, resolved, resp, read, sent, fetches,
                   failure, svars, evars, pvars, lvars>>

\* server/router.rs proxy_path / proxy_query, proxy_request, and
\* WorkerFetchClient::get up to the await of the fetch.
RouterHandle ==
    /\ target = "router" /\ stage = "Received"
    /\ LET r == req[1]
           u == TargetOf[r]
           parsed == UrlParse(u[1])
       IN  IF u = None
               THEN Reject(<<>>, NoUrlResponse(r)) /\ UNCHANGED <<fetches, resolved>>
           ELSE IF ~DigestAccepted(config.key, r)
               THEN /\ Reject(<<"DigestVerifying">>, ErrorResponse("DigestMismatch"))
                    /\ UNCHANGED <<fetches, resolved>>
           ELSE IF parsed = None
               THEN /\ Reject(<<"DigestVerifying", "URLValidating">>,
                              ErrorResponse("InvalidUrl"))
                    /\ UNCHANGED <<fetches, resolved>>
           ELSE IF parsed[1].scheme # HttpScheme /\ parsed[1].scheme # HttpsScheme
               THEN /\ Reject(<<"DigestVerifying", "URLValidating">>,
                              ErrorResponse("InvalidUrl"))
                    /\ UNCHANGED <<fetches, resolved>>
           ELSE /\ Enter(<<"DigestVerifying", "URLValidating", "Fetching">>)
                /\ fetches' = fetches + 1
                /\ ConnectResolves
                /\ UNCHANGED outcome
    /\ UNCHANGED <<config, target, downstream, served, req, resp, read, sent, failure,
                   svars, evars, pvars, lvars>>

\* worker.rs handle_request up to the await of the fetch.  The key and
\* max_size come from the environment; the routes /, /health and
\* /favicon.ico are answered before and are not proxy requests.
WorkerHandle ==
    /\ target = "worker" /\ stage = "Received"
    /\ LET r == req[1]
           u == TargetOf[r]
       IN  IF u = None
               THEN Reject(<<>>, NoUrlResponse(r)) /\ UNCHANGED <<fetches, resolved>>
           ELSE IF ~DigestAccepted(config.key, r)
               THEN /\ Reject(<<"DigestVerifying">>,
                              PlainResponse("DigestMismatch", 400))
                    /\ UNCHANGED <<fetches, resolved>>
           ELSE IF ~StartsWith(u[1], HttpPrefix) /\ ~StartsWith(u[1], HttpsPrefix)
               THEN /\ Reject(<<"DigestVerifying", "URLValidating">>,
                              PlainResponse("InvalidUrl", 400))
                    /\ UNCHANGED <<fetches, resolved>>
           ELSE IF UrlParse(u[1]) = None
               THEN /\ Reject(<<"DigestVerifying", "URLValidating">>,
                              PlainResponse("InvalidUrl", 400))
                    /\ UNCHANGED <<fetches, resolved>>
           ELSE /\ Enter(<<"DigestVerifying", "URLValidating", "Fetching">>)
                /\ fetches' = fetches + 1
                /\ ConnectResolves
                /\ UNCHANGED outcome
    /\ UNCHANGED <<config, target, downstream, served, req, resp, read, sent, failure,
                   svars, evars, pvars, lvars>>

\* the upstream response heads the model draws from: the Content-Type header
\* is missing, not text (to_str fails), or text; a declared Content-Length
\* frames the body.
ContentTypeHeaders ==
    { <<"missing">>, <<"opaque">>,
      <<"text", Text("png")>>, <<"text", Text("PNG") \o Text("charset")>>,
      <<"text", Text("html")>>, <<"text", Text("mp4")>> }

\* the other headers of an upstream response head, as a map from the
\* lower-cased header name to its value
UpstreamExtras ==
    { <<>>,
      ("cache-control" :> "max-age=60") @@ ("etag" :> "\"v1\"")
          @@ ("last-modified" :> "Sat, 01 Jan 2022 00:00:00 GMT"),
      ("set-cookie" :> "sid=1") @@ ("location" :> "http://a/next")
          @@ ("etag" :> "\"v1\""),
      ("x-content-type-options" :> "sniff")
          @@ ("content-security-policy" :> "default-src *")
          @@ ("server" :> "up") }

\* the statuses at the edges of 200..299, a 4xx and a 5xx; the responses with
\* a status other than 200 carry no further headers
PipeStatuses == {200, 299, 300, 404, 500}

PipeResponses ==
    { r \in [ status : PipeStatuses,
              content_type : ContentTypeHeaders,
              content_length : {None} \cup { Some(n) : n \in 0..(MaxSize + 1) },
              body : 0..MaxBody,
              extra : UpstreamExtras ] :
        /\ r.content_length # None => r.body = r.content_length[1]
        /\ r.status # 200 => r.extra = <<>> }

\* response.headers(): every header of the upstream response head
UpstreamHeaders(r) ==
    (IF r.content_type[1] = "missing" THEN <<>>
     ELSE "content-type" :> r.content_type)
    @@ (IF r.content_length = None THEN <<>>
        ELSE "content-length" :> r.content_length[1])
    @@ r.extra

\* every upstream header copied, whatever its name
CopyHeaders_All(up, names) == up

\* if let Some(v) = response.headers().get(NAME) { headers.insert(NAME, v) }
\* for each NAME of `names`
CopyHeaders(up, names) == [n \in (DOMAIN up) \cap names |-> up[n]]

\* the security headers without the content-security-policy
SecurityHeaders_NoCsp == "x-content-type-options" :> "nosniff"

\* headers.insert(X_CONTENT_TYPE_OPTIONS, ..); headers.insert(CONTENT_SECURITY_POLICY, ..)
SecurityHeaders ==
    ("x-content-type-options" :> "nosniff")
    @@ ("content-security-policy" :>
            "default-src 'none'; img-src data:; style-src 'unsafe-inline'")

\* ProxyClient::proxy: the HeaderMap of the relayed response; a later insert
\* replaces an earlier one of the same name
ServerHeaders(r) ==
    SecurityHeaders
    @@ CopyHeaders(UpstreamHeaders(r),
                   {"content-type", "content-length", "cache-control", "etag",
                    "last-modified"})

\* WorkerFetchClient::get: content-length is set from the buffered body
RouterHeaders(r) ==
    ("content-length" :> r.body)
    @@ SecurityHeaders
    @@ CopyHeaders(UpstreamHeaders(r),
                   {"content-type", "cache-control", "etag", "last-modified"})

\* worker.rs handle_request: content-length is not copied
WorkerHeaders(r) ==
    SecurityHeaders
    @@ CopyHeaders(UpstreamHeaders(r),
                   {"content-type", "cache-control", "etag", "last-modified"})

\* the declared content type with a missing header taken for an image
DeclaredContentType_DefaultImage(r) ==
    IF r.content_type[1] = "text" THEN r.content_type[2] ELSE Text("png")

\* .and_then(|v| v.to_str().ok()).unwrap_or("") / .ok().flatten().unwrap_or_default()
DeclaredContentType(r) ==
    IF r.content_type[1] = "text" THEN r.content_type[2] ELSE <<>>

\* the declared-length check with >= in place of >
DeclaredTooLarge_Inclusive(r, max_size) ==
    r.content_length # None /\ r.content_length[1] >= max_size

\* if let Some(content_length) = ... { if content_length > max_size { ... } }
DeclaredTooLarge(r, max_size) ==
    r.content_length # None /\ r.content_length[1] > max_size

FetchFailures == {"connect", "timeout", "redirects"}

\* the relayed response: status 200 and the built headers
Ok200(headers) == Some([kind |-> "Ok", status |-> 200, headers |-> headers])

\* the two checks of ProxyClient::proxy in the other order
ServerResponse_LengthFirst ==
    /\ target = "server" /\ stage = "Fetching"
    /\ \E r \in PipeResponses :
        /\ resp' = Some(r)
        /\ IF DeclaredTooLarge(r, config.max_size)
               THEN Reject(<<"HeaderChecking">>, ErrorResponse("ContentTooLarge"))
           ELSE IF ~ProxyClientIsAllowedContentType(config, DeclaredContentType(r))
               THEN Reject(<<"HeaderChecking">>,
                           ErrorResponse("ContentTypeNotAllowed"))
           ELSE /\ Enter(<<"HeaderChecking", "Streaming">>)
                /\ outcome' = Ok200(ServerHeaders(r))
    /\ UNCHANGED <<config, target, downstream, served, req, resolved, read, sent, fetches, failure,
                   svars, evars, pvars, lvars>>

\* ProxyClient::proxy once send() returned a response: the content-type
\* check, the declared-length check, the headers, and the body handed to
\* axum as a stream; the response head goes out with status 200.
ServerResponse ==
    /\ target = "server" /\ stage = "Fetching"
    /\ \E r \in PipeResponses :
        /\ resp' = Some(r)
        /\ IF ~ProxyClientIsAllowedContentType(config, DeclaredContentType(r))
               THEN Reject(<<"HeaderChecking">>,
                           ErrorResponse("ContentTypeNotAllowed"))
           ELSE IF DeclaredTooLarge(r, config.max_size)
               THEN Reject(<<"HeaderChecking">>, ErrorResponse("ContentTooLarge"))
           ELSE /\ Enter(<<"HeaderChecking", "Streaming">>)
                /\ outcome' = Ok200(ServerHeaders(r))
    /\ UNCHANGED <<config, target, downstream, served, req, resolved, read, sent, fetches, failure,
                   svars, evars, pvars, lvars>>

\* a failed send answered by a second attempt
ServerFetchError_Retry ==
    /\ target = "server" /\ stage = "Fetching" /\ fetches < 2
    /\ \E cause \in FetchFailures : failure' = Some(cause)
    /\ fetches' = fetches + 1
    /\ UNCHANGED <<config, target, downstream, served, req, stage, stages, resolved, resp, read,
                   sent, outcome, svars, evars, pvars, lvars>>

\* send().await? failed: every reqwest::Error becomes CamoError::Upstream
ServerFetchError ==
    /\ target = "server" /\ stage = "Fetching"
    /\ \E cause \in FetchFailures : failure' = Some(cause)
    /\ Reject(<<>>, ErrorResponse("Upstream"))
    /\ UNCHANGED <<config, target, downstream, served, req, resolved, resp, read, sent, fetches,
                   svars, evars, pvars, lvars>>

\* Body::from_stream(response.bytes_stream()): one chunk arrives from
\* upstream and is written downstream.
ServerStreamChunk ==
    /\ target = "server" /\ stage = "Streaming"
    /\ read < resp[1].body
    /\ \E n \in 1..BufSize :
        /\ read + n <= resp[1].body
        /\ read' = read + n
        /\ sent' = sent + n
    /\ UNCHANGED <<config, target, downstream, served, req, stage, stages, resolved, resp, fetches,
                   failure, outcome, svars, evars, pvars, lvars>>

\* the upstream body ended
ServerStreamEnd ==
    /\ target = "server" /\ stage = "Streaming"
    /\ read = resp[1].body
    /\ Enter(<<"Completed">>)
    /\ UNCHANGED <<config, target, downstream, served, req, resolved, resp, read, sent, fetches,
                   failure, outcome, svars, evars, pvars, lvars>>

\* the upstream body failed before its end (connection error, or the client
\* timeout firing during the body): the stream yields Err and the downstream
\* response is cut.
ServerStreamError ==
    /\ target = "server" /\ stage = "Streaming"
    /\ read < resp[1].body
    /\ \E cause \in {"connect", "timeout"} : failure' = Some(cause)
    /\ Enter(<<"Aborted">>)
    /\ UNCHANGED <<config, target, downstream, served, req, resolved, resp, read, sent, fetches,
                   outcome, svars, evars, pvars, lvars>>

\* the caller went away while the body was being written: the connection
\* task drops the response it was writing, and with it the Body, the
\* bytes_stream inside it and the upstream response that stream owns; the
\* upstream body was not read to its end
ServerDownstreamGone_Detached ==
    /\ target = "server" /\ stage = "Streaming"
    /\ downstream = "connected"
    /\ downstream' = "gone"
    /\ UNCHANGED <<config, target, served, req, stage, stages, resolved, resp,
                   read, sent, fetches, failure, outcome,
                   svars, evars, pvars, lvars>>

\* Body::from_stream(response.bytes_stream()): the upstream response is owned
\* by the body handed to the caller's connection, and is dropped with it
ServerDownstreamGone ==
    /\ target = "server" /\ stage = "Streaming"
    /\ downstream = "connected"
    /\ downstream' = "gone"
    /\ Enter(<<"Aborted">>)
    /\ UNCHANGED <<config, target, served, req, resolved, resp, read, sent,
                   fetches, failure, outcome, svars, evars, pvars, lvars>>

\* WorkerFetchClient::get once the fetch returned a response: the
\* content-type check and the declared-length check, then the await of
\* response.bytes().
RouterResponse ==
    /\ target = "router" /\ stage = "Fetching"
    /\ \E r \in PipeResponses :
        /\ resp' = Some(r)
        /\ IF ~ConfigIsAllowedContentType(config, DeclaredContentType(r))
               THEN Reject(<<"HeaderChecking">>,
                           ErrorResponse("ContentTypeNotAllowed"))
           ELSE IF DeclaredTooLarge(r, config.max_size)
               THEN Reject(<<"HeaderChecking">>, ErrorResponse("ContentTooLarge"))
           ELSE /\ Enter(<<"HeaderChecking", "Streaming">>)
                /\ UNCHANGED outcome
    /\ UNCHANGED <<config, target, downstream, served, req, resolved, read, sent, fetches, failure,
                   svars, evars, pvars, lvars>>

RouterFetchError ==
    /\ target = "router" /\ stage = "Fetching"
    /\ \E cause \in FetchFailures : failure' = Some(cause)
    /\ Reject(<<>>, ErrorResponse("Upstream"))
    /\ UNCHANGED <<config, target, downstream, served, req, resolved, resp, read, sent, fetches,
                   svars, evars, pvars, lvars>>

\* WorkerFetchClient::get once response.bytes() returned the whole body: the
\* size check on the body, the headers, and into_response with status 200.
RouterBodyRead ==
    /\ target = "router" /\ stage = "Streaming"
    /\ read' = resp[1].body
    /\ IF resp[1].body > config.max_size
           THEN /\ Reject(<<>>, ErrorResponse("ContentTooLarge"))
                /\ UNCHANGED sent
       ELSE /\ Enter(<<"Completed">>)
            /\ sent' = resp[1].body
            /\ outcome' = Ok200(RouterHeaders(resp[1]))
    /\ UNCHANGED <<config, target, downstream, served, req, resolved, resp, fetches, failure,
                   svars, evars, pvars, lvars>>

RouterBodyError ==
    /\ target = "router" /\ stage = "Streaming"
    /\ resp[1].body > 0
    /\ \E cause \in {"connect", "timeout"} : failure' = Some(cause)
    /\ Reject(<<>>, ErrorResponse("Upstream"))
    /\ UNCHANGED <<config, target, downstream, served, req, resolved, resp, read, sent, fetches,
                   svars, evars, pvars, lvars>>

\* the worker's status check refusing client and server errors only
WorkerResponse_ErrorsOnly ==
    /\ target = "worker" /\ stage = "Fetching"
    /\ \E r \in PipeResponses :
        /\ resp' = Some(r)
        /\ IF r.status >= 400
               THEN Reject(<<>>, PlainResponse("UpstreamStatus", 502))
           ELSE IF ~IsAllowedImageType(DeclaredContentType(r))
               THEN Reject(<<"HeaderChecking">>,
                           PlainResponse("ContentTypeNotAllowed", 415))
           ELSE IF DeclaredTooLarge(r, config.max_size)
               THEN Reject(<<"HeaderChecking">>,
                           PlainResponse("ContentTooLarge", 413))
           ELSE /\ Enter(<<"HeaderChecking", "Streaming">>)
                /\ UNCHANGED outcome
    /\ UNCHANGED <<config, target, downstream, served, req, resolved, read, sent, fetches, failure,
                   svars, evars, pvars, lvars>>

\* worker.rs handle_request once the fetch returned a response: the status
\* check, the content-type check (image types only), the declared-length
\* check, then the await of bytes().
WorkerResponse ==
    /\ target = "worker" /\ stage = "Fetching"
    /\ \E r \in PipeResponses :
        /\ resp' = Some(r)
        /\ IF ~(r.status \in 200..299)
               THEN Reject(<<>>, PlainResponse("UpstreamStatus", 502))
           ELSE IF ~IsAllowedImageType(DeclaredContentType(r))
               THEN Reject(<<"HeaderChecking">>,
                           PlainResponse("ContentTypeNotAllowed", 415))
           ELSE IF DeclaredTooLarge(r, config.max_size)
               THEN Reject(<<"HeaderChecking">>,
                           PlainResponse("ContentTooLarge", 413))
           ELSE /\ Enter(<<"HeaderChecking", "Streaming">>)
                /\ UNCHANGED outcome
    /\ UNCHANGED <<config, target, downstream, served, req, resolved, read, sent, fetches, failure,
                   svars, evars, pvars, lvars>>

WorkerFetchError ==
    /\ target = "worker" /\ stage = "Fetching"
    /\ \E cause \in FetchFailures : failure' = Some(cause)
    /\ Reject(<<>>, PlainResponse("Upstream", 502))
    /\ UNCHANGED <<config, target, downstream, served, req, resolved, resp, read, sent, fetches,
                   svars, evars, pvars, lvars>>

\* worker.rs handle_request once bytes() returned the whole body: the
\* headers and the response with status 200.
WorkerBodyRead ==
    /\ target = "worker" /\ stage = "Streaming"
    /\ read' = resp[1].body
    /\ sent' = resp[1].body
    /\ Enter(<<"Completed">>)
    /\ outcome' = Ok200(WorkerHeaders(resp[1]))
    /\ UNCHANGED <<config, target, downstream, served, req, resolved, resp, fetches, failure,
                   svars, evars, pvars, lvars>>

WorkerBodyError ==
    /\ target = "worker" /\ stage = "Streaming"
    /\ resp[1].body > 0
    /\ \E cause \in {"connect", "timeout"} : failure' = Some(cause)
    /\ Reject(<<>>, PlainResponse("Upstream", 502))
    /\ UNCHANGED <<config, target, downstream, served, req, resolved, resp, read, sent, fetches,
                   svars, evars, pvars, lvars>>

Next ==
    \/ Arrival
    \/ ServerHandle \/ ServerLookupAnswer \/ ServerLookupError
    \/ ServerResponse \/ ServerFetchError
    \/ ServerStreamChunk \/ ServerStreamEnd \/ ServerStreamError
    \/ ServerDownstreamGone
    \/ RouterHandle \/ RouterResponse \/ RouterFetchError
    \/ RouterBodyRead \/ RouterBodyError
    \/ WorkerHandle \/ WorkerResponse \/ WorkerFetchError
    \/ WorkerBodyRead \/ WorkerBodyError

Spec == Init /\ [][Next]_vars

Terminal == {"Rejected", "Aborted", "Completed"}

\* axum::serve / the worker runtime: the handler of one request has returned
\* and its locals are gone; the process takes the next request with the
\* state it shares between requests, the configuration
NextRequest_Backoff ==
    /\ stage \in Terminal
    /\ config' = IF outcome # None /\ outcome[1].status = 502
                     THEN [config EXCEPT !.max_size = 0]
                 ELSE config
    /\ req' = None /\ stage' = "Idle" /\ stages' = <<>>
    /\ resolved' = None /\ resp' = None /\ read' = 0 /\ sent' = 0
    /\ fetches' = 0 /\ failure' = None /\ outcome' = None
    /\ downstream' = "connected"
    /\ served' = TRUE
    /\ UNCHANGED <<target, svars, evars, pvars, lvars>>

NextRequest ==
    /\ stage \in Terminal
    /\ req' = None /\ stage' = "Idle" /\ stages' = <<>>
    /\ resolved' = None /\ resp' = None /\ read' = 0 /\ sent' = 0
    /\ fetches' = 0 /\ failure' = None /\ outcome' = None
    /\ downstream' = "connected"
    /\ served' = TRUE
    /\ UNCHANGED <<config, target, svars, evars, pvars, lvars>>

\* What the code's scheduling guarantees.  The runtime polls a handler that
\* can run.  The system resolver answers or gives up.  The reqwest client of
\* the standalone server is built with .timeout(config.timeout), which runs
\* from the start of the request to the end of the body: a send or a body
\* read that does not finish fails when it fires.  The Fetch of
\* WorkerFetchClient and of worker.rs is given no timeout and no abort
\* signal, so nothing obliges an upstream that stays silent to let
\* RouterResponse, RouterBodyRead, WorkerResponse or WorkerBodyRead (or
\* their error forms) happen.
Scheduled ==
    \/ ServerHandle \/ RouterHandle \/ WorkerHandle
    \/ ServerLookupAnswer \/ ServerLookupError
    \/ ServerResponse \/ ServerFetchError
    \/ ServerStreamChunk \/ ServerStreamEnd \/ ServerStreamError
    \/ ServerDownstreamGone

\* a request is at one stage of one pipeline at a time, so one condition on
\* the disjunction obliges each of its steps
Fairness == WF_vars(Scheduled)

\* The inputs of the fair specification: requests for "http://a" and
\* "ftp://a" (base64 path form and query form, signed, wrongly signed,
\* undecodable or without url), upstream heads without further headers, and
\* hosts resolving to one public or one private address.  Whether a request
\* ends does not depend on more than these.
LiveUrls ==
    { <<104, 116, 116, 112, 58, 47, 47, 97>>, <<102, 116, 112, 58, 47, 47, 97>> }

LiveRequests ==
    { r \in PipeRequests([key |-> PolicyKey]) :
        /\ r.digest \in { GenerateDigest(PolicyKey, u) : u \in LiveUrls }
                            \cup {WrongDigest}
        /\ r.route = "path" =>
               r.encoded_url[1] \in { EncodeUrlBase64(u) : u \in LiveUrls }
                                        \cup {UndecodableToken}
        /\ r.route = "query" => r.url \in { Some(u) : u \in LiveUrls } \cup {None} }

LiveInputs ==
    /\ req # None => req[1] \in LiveRequests
    /\ resolved # None => resolved[1] \in { <<PublicIp>>, <<<<10, 0, 0, 1>>>> }
    /\ resp # None => resp[1].extra = <<>>

\* the steps of Next whose inputs are among the above
LiveNext ==
    \/ Arrival /\ LiveInputs'
    \/ ServerHandle /\ LiveInputs'
    \/ ServerLookupAnswer /\ LiveInputs'
    \/ ServerLookupError /\ LiveInputs'
    \/ ServerResponse /\ LiveInputs'
    \/ ServerFetchError /\ LiveInputs'
    \/ ServerStreamChunk /\ LiveInputs'
    \/ ServerStreamEnd /\ LiveInputs'
    \/ ServerStreamError /\ LiveInputs'
    \/ ServerDownstreamGone /\ LiveInputs'
    \/ RouterHandle /\ LiveInputs'
    \/ RouterResponse /\ LiveInputs'
    \/ RouterFetchError /\ LiveInputs'
    \/ RouterBodyRead /\ LiveInputs'
    \/ RouterBodyError /\ LiveInputs'
    \/ WorkerHandle /\ LiveInputs'
    \/ WorkerResponse /\ LiveInputs'
    \/ WorkerFetchError /\ LiveInputs'
    \/ WorkerBodyRead /\ LiveInputs'
    \/ WorkerBodyError /\ LiveInputs'

\* the pipeline under the scheduling above
SpecLive == Init /\ [][LiveNext]_vars /\ Fairness

ServeNext == Next \/ NextRequest

\* the process over its lifetime: one request after another
SpecServe == Init /\ [][ServeNext]_vars

TypeOK ==
    /\ stage \in Stages
    /\ read \in 0..MaxBody /\ sent \in 0..MaxBody
    /\ fetches \in 0..1
    /\ outcome # None => outcome[1].status \in {200, 400, 403, 413, 415, 502, 504}

\* the content-type check the target applies to the response head
PassesTypeCheck ==
    LET ct == IF resp[1].content_type[1] = "text" THEN resp[1].content_type[2]
              ELSE <<>>
    IN  CASE target = "server" -> ProxyClientIsAllowedContentType(config, ct)
          [] target = "router" -> ConfigIsAllowedContentType(config, ct)
          [] target = "worker" ->
                 resp[1].status \in 200..299 /\ IsAllowedImageType(ct)

\* C7: an upstream response whose Content-Type header is missing or
\* unparseable is treated as not allowed: the request is rejected with
\* ContentTypeNotAllowed (415) and no body byte is read or relayed.  (The
\* worker handler answers a non-2xx upstream with 502 before it looks at the
\* content type.)
C7_MissingContentTypeRejected ==
    (resp # None /\ resp[1].content_type[1] \in {"missing", "opaque"}) =>
        /\ stage = "Rejected"
        /\ read = 0 /\ sent = 0
        /\ (target = "worker" /\ ~(resp[1].status \in 200..299))
               => outcome = Some([kind |-> "UpstreamStatus", status |-> 502])
        /\ (target # "worker" \/ resp[1].status \in 200..299)
               => outcome = Some([kind |-> "ContentTypeNotAllowed", status |-> 415])

C7_Witness ==
    /\ resp # None /\ resp[1].content_type = <<"opaque">>
    /\ resp[1].body > 0
    /\ target = "server"
    /\ outcome = Some([kind |-> "ContentTypeNotAllowed", status |-> 415])

\* C9: an upstream response declaring a Content-Length greater than the
\* configured maximum is rejected before any body byte is read, with
\* ContentTooLarge (413) when it reaches the declared-length check; a
\* declared length equal to the maximum is not rejected by this check.
C9_DeclaredLengthRejected ==
    resp # None =>
        LET r == resp[1]
        IN  /\ (r.content_length # None /\ r.content_length[1] > config.max_size)
                   => /\ stage = "Rejected"
                      /\ read = 0 /\ sent = 0
                      /\ PassesTypeCheck =>
                             outcome = Some([kind |-> "ContentTooLarge",
                                             status |-> 413])
            /\ (r.content_length = Some(config.max_size) /\ PassesTypeCheck)
                   => /\ stage \in {"Streaming", "Completed", "Aborted", "Rejected"}
                      /\ stage = "Rejected" => outcome[1].kind = "Upstream"
                      /\ outcome # None => outcome[1].kind # "ContentTooLarge"

C9_Witness ==
    /\ resp # None
    /\ resp[1].content_length = Some(config.max_size + 1)
    /\ outcome = Some([kind |-> "ContentTooLarge", status |-> 413])
    /\ read = 0

\* a declared length equal to the maximum went through
C9_WitnessEqual ==
    /\ resp # None
    /\ resp[1].content_length = Some(config.max_size)
    /\ stage = "Completed" /\ sent = config.max_size

\* C10: while streaming a response with no declared Content-Length, the relay
\* counts bytes as they pass and aborts the transfer once the running count
\* exceeds the configured maximum: the bytes forwarded downstream never
\* exceed the maximum plus one buffer of excess, and such a request ends in
\* Aborted rather than Completed.
C10_StreamedBytesBounded ==
    (resp # None /\ resp[1].content_length = None) =>
        /\ sent <= config.max_size + BufSize
        /\ stage = "Completed" => resp[1].body <= config.max_size

\* the headers of the upstream response head the request received
UpstreamOf == UpstreamHeaders(resp[1])

\* the request was answered with the relayed upstream response
Relayed == outcome # None /\ outcome[1].kind = "Ok"

\* C11: the headers of every relayed response are a subset of {content-type,
\* content-length, cache-control, etag, last-modified} copied verbatim from
\* upstream, plus the injected security headers; every other upstream header
\* is absent from the relayed response.
C11_RelayedHeadersFromAllowlist ==
    Relayed =>
        \A n \in DOMAIN outcome[1].headers :
            \/ n \in {"x-content-type-options", "content-security-policy"}
            \/ /\ n \in {"content-type", "content-length", "cache-control",
                          "etag", "last-modified"}
               /\ n \in DOMAIN UpstreamOf
               /\ outcome[1].headers[n] = UpstreamOf[n]

\* C11 (amended): as above, except that the buffering client of the router
\* sets content-length to the length of the body it relays instead of copying
\* the upstream value.
C11_RelayedHeadersFromAllowlistOrBodyLength ==
    Relayed =>
        \A n \in DOMAIN outcome[1].headers :
            \/ n \in {"x-content-type-options", "content-security-policy"}
            \/ /\ n \in {"content-type", "content-length", "cache-control",
                          "etag", "last-modified"}
               /\ n \in DOMAIN UpstreamOf
               /\ outcome[1].headers[n] = UpstreamOf[n]
            \/ /\ n = "content-length" /\ target = "router"
               /\ outcome[1].headers[n] = resp[1].body

\* an upstream response with Set-Cookie, Location and ETag was relayed with
\* the ETag only
C11_Witness ==
    /\ Relayed
    /\ {"set-cookie", "location", "etag"} \subseteq DOMAIN UpstreamOf
    /\ "etag" \in DOMAIN outcome[1].headers
    /\ "set-cookie" \notin DOMAIN outcome[1].headers
    /\ "location" \notin DOMAIN outcome[1].headers

\* C12: every successful relayed response carries both fixed security
\* headers, X-Content-Type-Options: nosniff and Content-Security-Policy:
\* default-src 'none'; img-src data:; style-src 'unsafe-inline', whatever the
\* upstream sent for those header names.
C12_SecurityHeadersPresent ==
    Relayed =>
        /\ {"x-content-type-options", "content-security-policy"}
               \subseteq DOMAIN outcome[1].headers
        /\ outcome[1].headers["x-content-type-options"] = "nosniff"
        /\ outcome[1].headers["content-security-policy"] =
               "default-src 'none'; img-src data:; style-src 'unsafe-inline'"

\* the upstream sent its own values for both header names
C12_Witness ==
    /\ Relayed
    /\ "x-content-type-options" \in DOMAIN UpstreamOf
    /\ UpstreamOf["x-content-type-options"] = "sniff"
    /\ "content-security-policy" \in DOMAIN UpstreamOf
    /\ outcome[1].headers["x-content-type-options"] = "nosniff"

\* the host of the request resolved to 127.0.0.1 or to an address in
\* 10.0.0.0/8, 169.254.0.0/16 or 100.64.0.0/10
ResolvesToListedPrivate ==
    /\ resolved # None
    /\ \E i \in 1..Len(resolved[1]) :
          LET ip == resolved[1][i]
          IN  /\ Len(ip) = 4
              /\ \/ ip = <<127, 0, 0, 1>>
                 \/ ip[1] = 10
                 \/ (ip[1] = 169 /\ ip[2] = 254)
                 \/ (ip[1] = 100 /\ ip[2] \in 64..127)

\* C13: a target whose hostname resolves to 127.0.0.1 or to any address in
\* 10.0.0.0/8, 169.254.0.0/16 or 100.64.0.0/10 is rejected with
\* PrivateNetworkNotAllowed (403) when the block-private flag is on, and
\* proceeds to the fetch stage when the flag is off.  (Stated for the
\* deployments whose configuration has the flag; the worker handler has none.)
C13_PrivateTargetRejectedWhenBlocking ==
    (target \in {"server", "router"} /\ ResolvesToListedPrivate) =>
        IF config.block_private
            THEN /\ stage = "Rejected" /\ fetches = 0
                 /\ outcome = Some([kind |-> "PrivateNetworkNotAllowed",
                                    status |-> 403])
        ELSE fetches = 1

\* C14: each error kind maps to exactly the documented status, and every
\* rejected request is answered with the status of the kind that rejected it.
\* (The handlers also build two responses in place: 400 for a missing url
\* parameter and, in the worker handler, 502 for a non-2xx upstream status.)
C14_StatusOfKind ==
    LET documented ==
            [ InvalidDigest |-> 400, DigestMismatch |-> 400,
              InvalidUrlEncoding |-> 400, InvalidUrl |-> 400,
              ContentTypeNotAllowed |-> 415, ContentTooLarge |-> 413,
              TooManyRedirects |-> 502, Upstream |-> 502, Timeout |-> 504,
              PrivateNetworkNotAllowed |-> 403 ]
    IN  /\ \A kind \in DOMAIN documented : StatusOf(kind) = documented[kind]
        /\ stage = "Rejected" =>
              /\ outcome # None
              /\ outcome[1].kind \in
                     DOMAIN documented \cup {"MissingUrl", "UpstreamStatus"}
              /\ outcome[1].kind \in DOMAIN documented =>
                     outcome[1].status = documented[outcome[1].kind]
              /\ outcome[1].kind = "MissingUrl" => outcome[1].status = 400
              /\ outcome[1].kind = "UpstreamStatus" => outcome[1].status = 502

\* a request rejected by the network check was answered 403
C14_Witness ==
    /\ stage = "Rejected"
    /\ outcome = Some([kind |-> "PrivateNetworkNotAllowed", status |-> 403])
    /\ target = "server"

\* C15: when the upstream fetch exceeds the configured socket timeout, the
\* request is aborted with the Timeout kind and the caller sees status 504,
\* not the 502 of a generic upstream failure.  (Stated for the standalone
\* server, whose client is built with the configured timeout, and for a
\* timeout that fires before the response head is relayed.)
C15_TimeoutAnswered504 ==
    (target = "server" /\ failure = Some("timeout") /\ stage = "Rejected") =>
        outcome = Some([kind |-> "Timeout", status |-> 504])

\* every request the model draws from, with the target URL its handler
\* derives from it
\* the request's target URL was decoded and its digest verified
DigestVerified == req # None /\ <<config.key, req[1]>> \in VerifiedRequests

\* C16: each request passes the stages in the order digest verification, URL
\* validation, network check, fetch, header checks, streaming; a request
\* rejected at one stage never enters a later stage.  No outbound connection
\* is attempted unless the digest verified, the URL parsed with scheme http or
\* https, and (when blocking is on) the network check passed; a request with
\* both a wrong digest and an invalid URL is rejected as DigestMismatch.  (The
\* worker handler has no blocking flag; the clause is stated for the other two.)
C16_StagesInOrder ==
    LET rank == [ Idle |-> 0, Received |-> 1, DigestVerifying |-> 2,
                  URLValidating |-> 3, NetworkChecking |-> 4, Fetching |-> 5,
                  HeaderChecking |-> 6, Streaming |-> 7,
                  Rejected |-> 8, Aborted |-> 8, Completed |-> 8 ]
        entered(st) == \E i \in 1..Len(stages) : stages[i] = st
    IN  /\ \A i, j \in 1..Len(stages) : i < j => rank[stages[i]] < rank[stages[j]]
        /\ fetches > 0 <=> entered("Fetching")
        /\ entered("Fetching") =>
              /\ DigestVerified
              /\ entered("DigestVerifying") /\ entered("URLValidating")
              /\ LET u == TargetOf[req[1]][1]
                 IN  \E n \in {4, 5} :
                        /\ Len(u) > n
                        /\ [i \in 1..n |-> LowerByte(u[i])] \in {HttpScheme, HttpsScheme}
                        /\ u[n + 1] = 58
              /\ (target \in {"server", "router"} /\ config.block_private) =>
                    /\ entered("NetworkChecking")
                    /\ resolved # None
                    /\ \A i \in 1..Len(resolved[1]) : ~IsPrivateIp(resolved[1][i])
        /\ (req # None /\ stage # "Received" /\ TargetOf[req[1]] # None
               /\ ~DigestVerified)
              => /\ stage = "Rejected" /\ outcome[1].kind = "DigestMismatch"
                 /\ stages = <<"Received", "DigestVerifying", "Rejected">>

\* C17: every inbound proxy request causes at most one upstream fetch
\* attempt: after any upstream failure, timeout or policy rejection the
\* pipeline reports the failure and never issues a second attempt.
C17_SingleFetch ==
    /\ fetches <= 1
    /\ (failure # None \/ stage = "Rejected") =>
          /\ outcome # None \/ stage = "Aborted"
          /\ \A i \in 1..Len(stages) : \A j \in 1..Len(stages) :
                (stages[i] = "Fetching" /\ stages[j] = "Fetching") => i = j

\* an upstream failure after the one attempt, reported
C17_Witness ==
    /\ failure = Some("connect")
    /\ fetches = 1
    /\ stage = "Rejected" /\ outcome # None /\ outcome[1].status = 502

\* C18: a correctly signed target that does not parse as an absolute URL, or
\* whose scheme is neither http nor https, is rejected with InvalidUrl (400)
\* and no outbound request is made for it.  The targets are "ftp://a" (wrong
\* scheme), "a.png" (not absolute) and "http://" (no host).
C18_InvalidUrlRejected ==
    (/\ DigestVerified
     /\ stage # "Received"
     /\ TargetOf[req[1]][1] \in { <<102, 116, 112, 58, 47, 47, 97>>,
                                   <<97, 46, 112, 110, 103>>,
                                   <<104, 116, 116, 112, 58, 47, 47>> })
        => /\ stage = "Rejected"
           /\ outcome = Some([kind |-> "InvalidUrl", status |-> 400])
           /\ fetches = 0
           /\ resolved = None

\* a signed ftp URL was rejected on the standalone server
C18_Witness ==
    /\ DigestVerified
    /\ TargetOf[req[1]][1] = <<102, 116, 112, 58, 47, 47, 97>>
    /\ target = "server"
    /\ stage = "Rejected"
    /\ outcome = Some([kind |-> "InvalidUrl", status |-> 400])

(***************************************************************************)
(* The response of each pipeline as a function of the request, the         *)
(* configuration and what the network gave it: `addrs` the host lookup's   *)
(* answer, `up` the upstream response head, `cause` the upstream failure.  *)
(***************************************************************************)
\* verify_digest passed and Url::parse gave an http or https URL
ParsesAsHttp(u) ==
    LET parsed == UrlParse(u)
    IN  parsed # None /\ parsed[1].scheme \in {HttpScheme, HttpsScheme}

\* the requests whose target Url::parse takes for an http or https URL, and
\* those the worker's prefix test and Url::parse let through
ParsedRequests ==
    { r \in AllRequests : TargetOf[r] # None /\ ParsesAsHttp(TargetOf[r][1]) }
PrefixedRequests ==
    { r \in AllRequests :
        /\ TargetOf[r] # None
        /\ (StartsWith(TargetOf[r][1], HttpPrefix)
                \/ StartsWith(TargetOf[r][1], HttpsPrefix))
        /\ UrlParse(TargetOf[r][1]) # None }

\* server.rs proxy_request and ProxyClient::proxy
ServerVerdict(c, r, addrs, up, cause) ==
    IF TargetOf[r] = None THEN NoUrlResponse(r)
    ELSE IF <<c.key, r>> \notin VerifiedRequests
        THEN ErrorResponse("DigestMismatch")
    ELSE IF r \notin ParsedRequests THEN ErrorResponse("InvalidUrl")
    ELSE IF c.block_private /\ addrs = None THEN ErrorResponse("InvalidUrl")
    ELSE IF c.block_private /\ AnyPrivate(addrs[1])
        THEN ErrorResponse("PrivateNetworkNotAllowed")
    ELSE IF up = None THEN ErrorResponse("Upstream")
    ELSE IF ~ProxyClientIsAllowedContentType(c, DeclaredContentType(up[1]))
        THEN ErrorResponse("ContentTypeNotAllowed")
    ELSE IF DeclaredTooLarge(up[1], c.max_size)
        THEN ErrorResponse("ContentTooLarge")
    ELSE Ok200(ServerHeaders(up[1]))

\* server/router.rs proxy_request and WorkerFetchClient::get
RouterVerdict(c, r, addrs, up, cause) ==
    IF TargetOf[r] = None THEN NoUrlResponse(r)
    ELSE IF <<c.key, r>> \notin VerifiedRequests
        THEN ErrorResponse("DigestMismatch")
    ELSE IF r \notin ParsedRequests THEN ErrorResponse("InvalidUrl")
    ELSE IF up = None THEN ErrorResponse("Upstream")
    ELSE IF ~ConfigIsAllowedContentType(c, DeclaredContentType(up[1]))
        THEN ErrorResponse("ContentTypeNotAllowed")
    ELSE IF DeclaredTooLarge(up[1], c.max_size)
        THEN ErrorResponse("ContentTooLarge")
    ELSE IF cause # None THEN ErrorResponse("Upstream")
    ELSE IF up[1].body > c.max_size THEN ErrorResponse("ContentTooLarge")
    ELSE Ok200(RouterHeaders(up[1]))

\* worker.rs handle_request
WorkerVerdict(c, r, addrs, up, cause) ==
    IF TargetOf[r] = None THEN NoUrlResponse(r)
    ELSE IF <<c.key, r>> \notin VerifiedRequests
        THEN PlainResponse("DigestMismatch", 400)
    ELSE IF r \notin PrefixedRequests THEN PlainResponse("InvalidUrl", 400)
    ELSE IF up = None THEN PlainResponse("Upstream", 502)
    ELSE IF ~(up[1].status \in 200..299) THEN PlainResponse("UpstreamStatus", 502)
    ELSE IF ~IsAllowedImageType(DeclaredContentType(up[1]))
        THEN PlainResponse("ContentTypeNotAllowed", 415)
    ELSE IF DeclaredTooLarge(up[1], c.max_size)
        THEN PlainResponse("ContentTooLarge", 413)
    ELSE IF cause # None THEN PlainResponse("Upstream", 502)
    ELSE Ok200(WorkerHeaders(up[1]))

Verdict(t, c, r, addrs, up, cause) ==
    CASE t = "server" -> ServerVerdict(c, r, addrs, up, cause)
      [] t = "router" -> RouterVerdict(c, r, addrs, up, cause)
      [] t = "worker" -> WorkerVerdict(c, r, addrs, up, cause)

C21_WitnessRejected ==
    /\ served
    /\ stage = "Rejected"
    /\ outcome # None /\ outcome[1].status = 502

\* the upstream exchange of the request is in flight: the pending send, or
\* the response whose body is still being read
UpstreamOpen == stage \in {"Fetching", "HeaderChecking", "Streaming"}

C23_WorkerAnswersAsServer ==
    (target = "worker" /\ stage \in Terminal /\ resp # None /\ failure = None)
        => LET s == ServerVerdict(config, req[1], resolved, resp, failure)[1]
           IN  /\ outcome[1].status = s.status
               /\ s.kind = "Ok" => /\ outcome[1].headers = s.headers
                                   /\ sent = resp[1].body

\* C24: with block_private on, check_private_network looks at every address
\* the lookup answered: the request is rejected with PrivateNetworkNotAllowed,
\* before any fetch, exactly when at least one of them is IPv4 loopback
\* (127/8), link-local (169.254/16), broadcast, documentation (192.0.2/24,
\* 198.51.100/24, 203.0.113/24), unspecified, private (10/8, 172.16/12,
\* 192.168/16) or in 100.64.0.0/10 (second octet 64..127), or IPv6 loopback
\* or unspecified.
C24_RejectedIffSomeAddressListed ==
    LET Listed(ip) ==
            IF Len(ip) = 4
                THEN \/ ip[1] = 127
                     \/ (ip[1] = 169 /\ ip[2] = 254)
                     \/ ip = <<255, 255, 255, 255>>
                     \/ <<ip[1], ip[2], ip[3]>> \in
                            { <<192, 0, 2>>, <<198, 51, 100>>, <<203, 0, 113>> }
                     \/ ip = <<0, 0, 0, 0>>
                     \/ ip[1] = 10
                     \/ (ip[1] = 172 /\ ip[2] >= 16 /\ ip[2] <= 31)
                     \/ (ip[1] = 192 /\ ip[2] = 168)
                     \/ (ip[1] = 100 /\ ip[2] >= 64 /\ ip[2] <= 127)
            ELSE ip \in { <<0, 0, 0, 0, 0, 0, 0, 1>>, <<0, 0, 0, 0, 0, 0, 0, 0>> }
    IN  (target = "server" /\ config.block_private /\ resolved # None)
            => ((/\ stage = "Rejected"
                 /\ outcome = Some([kind |-> "PrivateNetworkNotAllowed",
                                    status |-> 403])
                 /\ fetches = 0)
                <=> \E i \in 1..Len(resolved[1]) : Listed(resolved[1][i]))

\* a host with a public first address and a private second one was rejected
C24_Witness ==
    /\ target = "server" /\ config.block_private
    /\ resolved = Some(<<PublicIp, <<10, 0, 0, 1>>>>)
    /\ stage = "Rejected"
    /\ outcome = Some([kind |-> "PrivateNetworkNotAllowed", status |-> 403])

\* a host just outside 100.64.0.0/10 was fetched
C24_WitnessAllowed ==
    /\ target = "server" /\ config.block_private
    /\ resolved = Some(<< <<100, 63, 255, 255>> >>)
    /\ stage = "Completed"

\* the target's content-type check refuses the declared type of the response
TypeRefused ==
    LET ct == DeclaredContentType(resp[1])
    IN  CASE target = "server" -> ~ProxyClientIsAllowedContentType(config, ct)
          [] target = "router" -> ~ConfigIsAllowedContentType(config, ct)
          [] target = "worker" -> ~IsAllowedImageType(ct)

\* C25: the content-type check comes before the declared-length check: an
\* upstream response whose type is refused and whose Content-Length is above
\* the maximum is rejected with ContentTypeNotAllowed (415), never with
\* ContentTooLarge (413), and no body byte is read.  (The worker handler
\* answers a non-2xx upstream with 502 before either check.)
C25_TypeCheckedBeforeLength ==
    (resp # None /\ TypeRefused /\ DeclaredTooLarge(resp[1], config.max_size))
        => /\ stage = "Rejected"
           /\ read = 0 /\ sent = 0
           /\ outcome[1].status # 413
           /\ (target = "worker" /\ ~(resp[1].status \in 200..299))
                  => outcome = Some([kind |-> "UpstreamStatus", status |-> 502])
           /\ (target # "worker" \/ resp[1].status \in 200..299)
                  => outcome = Some([kind |-> "ContentTypeNotAllowed",
                                     status |-> 415])

\* a text/html response declaring more than max_size bytes was answered 415
C25_Witness ==
    /\ resp # None
    /\ resp[1].content_type = <<"text", Text("html")>>
    /\ resp[1].content_length = Some(config.max_size + 1)
    /\ target = "server"
    /\ outcome = Some([kind |-> "ContentTypeNotAllowed", status |-> 415])

\* C26: every request that has been received ends in a terminal stage
\* (Rejected, Aborted or Completed): none stays for ever in Fetching or
\* Streaming, and a request in a terminal stage keeps its stage and its
\* response.
C26_EveryRequestTerminates ==
    /\ (stage = "Received") ~> (stage \in Terminal)
    /\ [][(stage \in Terminal) => (stage' = stage /\ outcome' = outcome)]_vars

(***************************************************************************)
(* Serving a signed path (server/router.rs): the routes, proxy_path,       *)
(* proxy_query and proxy_request up to the digest check.                   *)
(***************************************************************************)
\* the index of the first '/' of s at or after position i, 0 if there is none
RECURSIVE NextSlash(_, _)
NextSlash(s, i) ==
    IF i > Len(s) THEN 0
    ELSE IF s[i] = 47 THEN i
    ELSE NextSlash(s, i + 1)

\* .route("/{digest}/{*encoded_url}", ..): a non-empty first segment and a
\* non-empty rest
RoutePath(p) ==
    LET j == NextSlash(p, 2)
    IN  IF Len(p) >= 1 /\ p[1] = 47 /\ j > 2 /\ j < Len(p)
            THEN Some([digest |-> SubSeq(p, 2, j - 1),
                       encoded_url |-> SubSeq(p, j + 1, Len(p))])
        ELSE None

\* proxy_request up to verify_digest
VerifyRequest(k, d, u) ==
    IF VerifyDigest(k, u, d) THEN <<"Verified", u>> ELSE <<"DigestMismatch">>

\* GET p on a server holding key k: proxy_path
ServePath(k, p) ==
    LET m == RoutePath(p)
    IN  IF m = None THEN <<"NotFound">>
        ELSE LET u == DecodeUrl(m[1].encoded_url)
             IN  IF u = None THEN <<"InvalidUrlEncoding">>
                 ELSE VerifyRequest(k, m[1].digest, u[1])

\* GET /{digest}?url=... on a server holding key k: proxy_query with the url
\* parameter q as the extractor hands it over
ServeQuery(k, d, q) ==
    IF q = None THEN <<"MissingUrl">> ELSE VerifyRequest(k, d, q[1])

\* C27: for every key, every http or https URL U and both encodings, the
\* path of sign(U), as to_path gives it, served by a server holding the same
\* key decodes back to U and passes the digest check (it is answered neither
\* InvalidUrlEncoding nor DigestMismatch); the same digest is accepted on the
\* query form with url = U.
C27_SignedPathIsServed ==
    (/\ signed # None
     /\ (StartsWith(signed[1].original_url, HttpPrefix)
            \/ StartsWith(signed[1].original_url, HttpsPrefix)))
        => /\ ServePath(camo[1].key, ToPath(signed[1]))
                = <<"Verified", signed[1].original_url>>
           /\ ServeQuery(camo[1].key, signed[1].digest,
                         Some(signed[1].original_url))
                = <<"Verified", signed[1].original_url>>
           /\ (output # None /\ output[1].op = "to_path")
                  => ServePath(camo[1].key, output[1].text)
                         = <<"Verified", signed[1].original_url>>

\* to_path was called on the base64 form of a signed https URL that sign had
\* given in hex
C27_Witness ==
    /\ signed # None
    /\ signed[1].original_url = <<104, 116, 116, 112, 115, 58, 47, 47, 98>>
    /\ signed[1].encoding = "Base64" /\ first[1].encoding = "Hex"
    /\ output # None /\ output[1].op = "to_path"
    /\ ServePath(camo[1].key, output[1].text)
           = <<"Verified", signed[1].original_url>>

\* C28: the standalone server never looks at the upstream status: every
\* upstream response that passes its content-type and declared-length checks
\* is relayed with status 200 and the headers built from it, whatever the
\* upstream status (4xx and 5xx included).  The worker handler answers every
\* upstream status outside 200..299 with 502 before it looks at the content
\* type or the length, and no status inside 200..299 so.
C28_UpstreamStatusHandling ==
    resp # None =>
        /\ (target = "server" /\ ~TypeRefused
                /\ ~DeclaredTooLarge(resp[1], config.max_size))
               => /\ stage \in {"Streaming", "Completed", "Aborted"}
                  /\ outcome = Ok200(ServerHeaders(resp[1]))
        /\ (target = "worker" /\ ~(resp[1].status \in 200..299))
               => /\ stage = "Rejected"
                  /\ outcome = Some([kind |-> "UpstreamStatus", status |-> 502])
                  /\ \A i \in 1..Len(stages) : stages[i] # "HeaderChecking"
                  /\ read = 0 /\ sent = 0
        /\ (target = "worker" /\ resp[1].status \in 200..299)
               => (outcome # None => outcome[1].kind # "UpstreamStatus")

\* the server relayed the whole body of an upstream 500 with status 200
C28_Witness ==
    /\ target = "server"
    /\ resp # None /\ resp[1].status = 500 /\ resp[1].body > 0
    /\ stage = "Completed" /\ sent = resp[1].body
    /\ outcome # None /\ outcome[1].status = 200

\* the worker answered an upstream 300 image with 502
C28_WitnessWorker ==
    /\ target = "worker"
    /\ resp # None /\ resp[1].status = 300
    /\ resp[1].content_type = <<"text", Text("png")>>
    /\ outcome = Some([kind |-> "UpstreamStatus", status |-> 502])

====
